---- MODULE Spec2Model ----
(***************************************************************************)
(* A model of the Google Workspace automations of this repository:         *)
(*   - the hybrid inactivity classifier (getInactiveUsers,                 *)
(*     checkIfUserInactive),                                               *)
(*   - the action executors of the suspend scripts (suspendUsers,          *)
(*     suspendAndChangeLicenses, suspendInactiveUsers),                    *)
(*   - the batch checkpoint manager of the groups audit                    *)
(*     (auditGroupsWithoutOwners, resetAudit, checkAuditProgress).         *)
(*                                                                         *)
(* An optional value of the scripts (a property that may be undefined, a   *)
(* map entry that may be missing) is a sequence of length 0 or 1.          *)
(* Timestamps are integers; `new Date(s).getTime()` of a timestamp is the  *)
(* integer itself.                                                         *)
(***************************************************************************)
EXTENDS Integers, Sequences, FiniteSets, TLC

\* ------------------------------------------------------------------------
\* Bounds of the model
\* ------------------------------------------------------------------------

\* Timestamps range over 0..MaxTime.
MaxTime == 3

Times == 0..MaxTime

None == << >>

Some(v) == << v >>

\* JavaScript truthiness of an optional, non-empty string value.
Present(o) == Len(o) > 0

OptTimes == {None} \cup {Some(t) : t \in Times}

\* ------------------------------------------------------------------------
\* State
\* ------------------------------------------------------------------------

VARIABLES
    \* --- classifier probe (SpecClassify) ---
    probe,          \* the inputs of one classification: user, login map, cutoff
    verdict,        \* what each classifier returned for the probe
    \* --- groups audit (SpecBatch) ---
    dirGroups,      \* Group Provider: the groups of the domain, in listing order
    groupsCache,    \* script property 'groupsCache'
    processedIndex, \* script property 'processedIndex'
    auditResults,   \* script property 'auditResults'
    lastRun,        \* the locals of the invocation that returned last
    invocations,    \* the locals of each execution of the audit that is under way
    triggers,       \* the handler functions of the installed project triggers
    finalReports,   \* the reports generateFinalReport has produced
    happened,       \* what the executions went through so far (ghost)
    runs,           \* the number of executions started so far (ghost)
    \* --- suspension scripts (SpecRun) ---
    config,         \* which script runs, and the CONFIG flags a run depends on
    dirUsers,       \* Directory Provider: the users AdminDirectory.Users.list returns
    reportsEvents,  \* Audit/Event Provider: the login events of the query window
    licenseItems,   \* License Provider: the assignments listForProduct returns
    licenseFailAt,  \* License Provider: the page whose request fails (0: none)
    reportsFailAt,  \* Audit Provider: the page whose request fails (0: none)
    pc,             \* where the run is: "idle", "processing", "done"
    inactiveUsers,  \* the script's inactiveUsers array
    usersToProcess, \* the array the executor loops over
    loopIndex,      \* the forEach position in that array (1-based)
    results,        \* the executor's result records
    calls,          \* the mutating provider calls issued so far
    report          \* what was handed to the Report Sink

classifyVars == << probe, verdict >>

stepVars == << invocations, triggers, finalReports, happened, runs >>

batchVars == << dirGroups, groupsCache, processedIndex, auditResults, lastRun,
               invocations, triggers, finalReports, happened, runs >>

runVars == << config, dirUsers, reportsEvents, licenseItems, licenseFailAt, reportsFailAt, pc,
          inactiveUsers,
             usersToProcess, loopIndex, results, calls, report >>

vars == << probe, verdict, dirGroups, groupsCache, processedIndex, auditResults, lastRun,
          invocations, triggers, finalReports, happened, runs,
          config, dirUsers, reportsEvents, licenseItems, licenseFailAt, reportsFailAt, pc,
          inactiveUsers,
          usersToProcess, loopIndex, results, calls, report >>

\* ------------------------------------------------------------------------
\* Identities
\* ------------------------------------------------------------------------

\* String.prototype.toLowerCase on the e-mail addresses of the model.
ToLower(e) ==
    CASE e = "Bob@corp" -> "bob@corp"
      [] e = "CY@corp" -> "cy@corp"
      [] e = "Eve@corp" -> "eve@corp"
      [] OTHER -> e

\* obj[key] of a JavaScript object used as a map: undefined when the key is
\* missing.
Lookup(map, key) == IF key \in DOMAIN map THEN Some(map[key]) ELSE None

EmptyMap == [k \in {} |-> 0]

\* ------------------------------------------------------------------------
\* Inactivity classifier
\* ------------------------------------------------------------------------

\* A mutant of the filter: the comparison with the cutoff is strict.
FilterInactiveStrict(user, reportsLoginData, cutoffDate) ==
    LET entry == Lookup(reportsLoginData, ToLower(user.primaryEmail)) IN
    IF Present(entry) /\ entry[1] > cutoffDate THEN FALSE
    ELSE IF Present(user.lastLoginTime) /\ user.lastLoginTime[1] > cutoffDate THEN FALSE
    ELSE TRUE

\* A mutant of the filter: the directory field is consulted only when the
\* event source has no entry.
FilterInactiveElseIf(user, reportsLoginData, cutoffDate) ==
    LET entry == Lookup(reportsLoginData, ToLower(user.primaryEmail)) IN
    IF Present(entry) THEN ~(entry[1] >= cutoffDate)
    ELSE IF Present(user.lastLoginTime) THEN ~(user.lastLoginTime[1] >= cutoffDate)
    ELSE TRUE

\* The filter callback of getInactiveUsers: TRUE keeps the user (INACTIVE).
FilterInactive(user, reportsLoginData, cutoffDate) ==
    LET entry == Lookup(reportsLoginData, ToLower(user.primaryEmail)) IN
    IF Present(entry) /\ entry[1] >= cutoffDate THEN FALSE
    ELSE IF Present(user.lastLoginTime) /\ user.lastLoginTime[1] >= cutoffDate THEN FALSE
    ELSE TRUE

\* The user as the filter callback leaves it: an inactive user's
\* lastLoginTime is overwritten by the event-source entry when there is one.
StoreLastLogin(user, reportsLoginData) ==
    LET entry == Lookup(reportsLoginData, ToLower(user.primaryEmail)) IN
    IF Present(entry) THEN [user EXCEPT !.lastLoginTime = entry] ELSE user

RECURSIVE FilterUsers(_, _, _)
FilterUsers(list, reportsLoginData, cutoffDate) ==
    IF list = << >> THEN << >>
    ELSE LET u == Head(list)
             rest == FilterUsers(Tail(list), reportsLoginData, cutoffDate)
         IN IF FilterInactive(u, reportsLoginData, cutoffDate)
            THEN << StoreLastLogin(u, reportsLoginData) >> \o rest
            ELSE rest

\* getInactiveUsers over the users the directory listing returned.
getInactiveUsers(listed, reportsLoginData, cutoffDate) ==
    FilterUsers(listed, reportsLoginData, cutoffDate)

\* A mutant of checkIfUserInactive: the directory fallback is dropped.
checkIfUserInactiveNoFallback(user, reportsLoginData, cutoffDate) ==
    LET entry == Lookup(reportsLoginData, ToLower(user.primaryEmail)) IN
    IF Present(entry) /\ entry[1] >= cutoffDate THEN FALSE
    ELSE TRUE

\* checkIfUserInactive of the license-first audit.
checkIfUserInactive(user, reportsLoginData, cutoffDate) ==
    LET entry == Lookup(reportsLoginData, ToLower(user.primaryEmail)) IN
    IF Present(entry) /\ entry[1] >= cutoffDate THEN FALSE
    ELSE IF Present(user.lastLoginTime) /\ user.lastLoginTime[1] >= cutoffDate THEN FALSE
    ELSE TRUE

\* ------------------------------------------------------------------------
\* Groups audit: batch checkpoint manager
\* ------------------------------------------------------------------------

\* The groups of the domain number 0..MaxGroups.
MaxGroups == 3

\* CONFIG.BATCH_SIZE (500 in the script), scaled down.
BATCH_SIZE == 2

\* CONFIG.MAX_EXECUTION_TIME (300 s in the script), scaled down.
MAX_EXECUTION_TIME == 3

\* maxResults of AdminDirectory.Groups.list (200 in the script), scaled down.
GROUPS_PAGE_SIZE == 2

Min(a, b) == IF a < b THEN a ELSE b

\* Array.prototype.slice(start, end) on a sequence (0-based, end exclusive).
Slice(list, start, end) == SubSeq(list, start + 1, Min(end, Len(list)))

\* The clock as iteration i of the batch loop reads it (seconds since the
\* invocation started): within the budget before iteration `over`, beyond
\* it from iteration `over` on.  `over` is an input of the invocation;
\* over = 1 is a start so slow (getAllGroups) that no group is checked.
ElapsedTime(over, i) ==
    IF i < over THEN Min(i - 1, MAX_EXECUTION_TIME) ELSE MAX_EXECUTION_TIME + i

\* What checkGroupHasRole returns for the two roles of one group.
RoleChecks == [hasOwner : BOOLEAN, hasManager : BOOLEAN]

NoRun == [op |-> "none"]

\* The executions that may overlap.
Procs == {1, 2}

\* No execution is under way.
IdleLocals == [pc |-> "idle"]

StepIdle ==
    /\ invocations = [p \in Procs |-> IdleLocals]
    /\ triggers = << >>
    /\ finalReports = << >>
    /\ happened = {}
    /\ runs = 0

ClassifyIdle ==
    /\ probe = [email |-> "ann@corp", ev |-> None, dir |-> None, cutoff |-> 0]
    /\ verdict = [auto |-> None, licensed |-> None]

RunIdle ==
    /\ config = [script |-> "none"]
    /\ dirUsers = << >>
    /\ reportsEvents = << >>
    /\ licenseItems = << >>
    /\ licenseFailAt = 0
    /\ reportsFailAt = 0
    /\ pc = "idle"
    /\ inactiveUsers = << >>
    /\ usersToProcess = << >>
    /\ loopIndex = 0
    /\ results = << >>
    /\ calls = << >>
    /\ report = None

BatchIdle ==
    /\ dirGroups = << >>
    /\ groupsCache = None
    /\ processedIndex = None
    /\ auditResults = None
    /\ lastRun = NoRun
    /\ StepIdle

\* The pages AdminDirectory.Groups.list returns until a page request fails:
\* `pagesOk` pages are fetched (all of them when pagesOk covers the list).
FetchGroups(pagesOk) == SubSeq(dirGroups, 1, Min(pagesOk * GROUPS_PAGE_SIZE, Len(dirGroups)))

GroupPages == (Len(dirGroups) + GROUPS_PAGE_SIZE - 1) \div GROUPS_PAGE_SIZE

\* The number of pages a listing can fetch before a page request fails; a
\* listing happens only when the list is not cached.
ListingOutcomes == IF Present(groupsCache) THEN {0} ELSE 0..GroupPages

\* getAllGroups: the cached list when the property is set, else the listing.
getAllGroups(pagesOk) ==
    IF Present(groupsCache) THEN groupsCache[1] ELSE FetchGroups(pagesOk)

\* The record pushed for a group that misses a role.
FlaggedRecord(group, chk) ==
    [groupEmail |-> group, hasOwner |-> chk.hasOwner, hasManager |-> chk.hasManager]

RECURSIVE BatchLoop(_, _, _, _, _, _)
\* The for loop of auditGroupsWithoutOwners from iteration i (1-based) on.
BatchLoop(batchGroups, over, chk, i, currentIndex, batchResults) ==
    IF i > Len(batchGroups)
    THEN [currentIndex |-> currentIndex, batchResults |-> batchResults, timedOut |-> FALSE]
    ELSE IF ElapsedTime(over, i) > MAX_EXECUTION_TIME
    THEN [currentIndex |-> currentIndex, batchResults |-> batchResults, timedOut |-> TRUE]
    ELSE BatchLoop(batchGroups, over, chk, i + 1, i,
                   IF ~chk[i].hasOwner \/ ~chk[i].hasManager
                   THEN Append(batchResults, FlaggedRecord(batchGroups[i], chk[i]))
                   ELSE batchResults)

\* A mutant of the combination: the batch's findings replace the earlier ones.
CombineResultsOverwrite(allResults, batchResults) == batchResults

\* allResults.concat(batchResults)
CombineResults(allResults, batchResults) == allResults \o batchResults

\* A mutant of the new index: the offset of the batch is dropped.
NewIndexNoStart(batchStart, currentIndex) == currentIndex

\* A mutant of the new index: a whole batch is counted, checked or not.
NewIndexWholeBatch(batchStart, currentIndex) == batchStart + BATCH_SIZE

\* processedIndex = batchStart + currentIndex
NewIndex(batchStart, currentIndex) == batchStart + currentIndex

\* The two properties when the invocation returns: saved, and deleted again
\* by the "audit complete" branch when the index has reached the list's end.
AuditFinish(newIndex, newResults, totalGroups) ==
    IF newIndex >= totalGroups
    THEN /\ processedIndex' = None
         /\ auditResults' = None
    ELSE /\ processedIndex' = Some(newIndex)
         /\ auditResults' = Some(newResults)

\* auditGroupsWithoutOwners, one whole invocation.
AuditGroupsWithoutOwners ==
    \E pagesOk \in ListingOutcomes :
      LET allGroups == getAllGroups(pagesOk)
          totalGroups == Len(allGroups)
          oldIndex == IF Present(processedIndex) THEN processedIndex[1] ELSE 0
          oldResults == IF Present(auditResults) THEN auditResults[1] ELSE << >>
          batchStart == oldIndex
          batchEnd == Min(oldIndex + BATCH_SIZE, totalGroups)
          batchGroups == Slice(allGroups, batchStart, batchEnd)
      IN \E over \in 1..(Len(batchGroups) + 1) :
         \E chk \in [1..Min(over - 1, Len(batchGroups)) -> RoleChecks] :
           LET loop == BatchLoop(batchGroups, over, chk, 1, 0, << >>)
               allResults == CombineResults(oldResults, loop.batchResults)
               newIndex == NewIndex(batchStart, loop.currentIndex)
           IN /\ groupsCache' = Some(allGroups)
              /\ AuditFinish(newIndex, allResults, totalGroups)
              /\ lastRun' = [op |-> "audit",
                             fetched |-> ~Present(groupsCache),
                             totalGroups |-> totalGroups,
                             batchStart |-> batchStart,
                             batchSize |-> Len(batchGroups),
                             currentIndex |-> loop.currentIndex,
                             timedOut |-> loop.timedOut,
                             checked |-> [j \in 1..loop.currentIndex |->
                                            FlaggedRecord(batchGroups[j], chk[j])],
                             oldResults |-> oldResults,
                             savedIndex |-> newIndex,
                             savedResults |-> allResults,
                             report |-> IF newIndex >= totalGroups
                                        THEN Some([groups |-> allResults,
                                                   totalGroupsScanned |-> totalGroups])
                                        ELSE None]
              /\ UNCHANGED << dirGroups, stepVars, classifyVars, runVars >>

\* A mutant of resetAudit: the deleteProperty of 'processedIndex' is missing.
ResetAuditKeepsIndex ==
    /\ groupsCache' = None
    /\ auditResults' = None
    /\ lastRun' = [op |-> "reset"]
    /\ UNCHANGED << dirGroups, processedIndex, stepVars, classifyVars, runVars >>

\* resetAudit: the three properties are deleted.
ResetAudit ==
    /\ groupsCache' = None
    /\ processedIndex' = None
    /\ auditResults' = None
    /\ lastRun' = [op |-> "reset"]
    /\ UNCHANGED << dirGroups, stepVars, classifyVars, runVars >>

\* checkAuditProgress: reads the progress; lists (and caches) the groups
\* only when some progress is recorded.
CheckAuditProgress ==
    \E pagesOk \in ListingOutcomes :
      LET idx == IF Present(processedIndex) THEN processedIndex[1] ELSE 0 IN
      /\ groupsCache' = IF idx = 0 THEN groupsCache ELSE Some(getAllGroups(pagesOk))
      /\ lastRun' = [op |-> "check", processedIndex |-> idx]
      /\ UNCHANGED << dirGroups, processedIndex, auditResults, stepVars, classifyVars, runVars >>

BatchInit ==
    /\ dirGroups \in {[i \in 1..n |-> i] : n \in 0..MaxGroups}
    /\ groupsCache = None
    /\ processedIndex = None
    /\ auditResults = None
    /\ lastRun = NoRun
    /\ StepIdle
    /\ ClassifyIdle
    /\ RunIdle

BatchNext == AuditGroupsWithoutOwners \/ ResetAudit \/ CheckAuditProgress

SpecBatch == BatchInit /\ [][BatchNext]_vars

\* ------------------------------------------------------------------------
\* Suspension scripts: providers and configuration
\*   "eplus"      Suspend Inactive Eplus Users.js
\*   "manage"     Suspend and Manage Licenses.js
\*   "suspend180" Inactive users 180 days - Suspend.js
\* ------------------------------------------------------------------------

\* Largest number of users the directory holds.
MaxUsers == 3

\* CONFIG.MAX_SUSPEND_COUNT (50 in the source), scaled to the directory size.
MAX_SUSPEND_COUNT == 2

TARGET_SKU_ID == "1010020020"

CLOUD_IDENTITY_FREE_SKU_ID == "1010010001"

\* A SKU of the catalogue that is not the target.
OTHER_SKU_ID == "1010020028"

\* getSkuName: the first catalogue name whose id matches, else the id.
getSkuName(skuId) ==
    CASE skuId = "1010020020" -> "Enterprise Plus"
      [] skuId = "1010020028" -> "Enterprise Standard"
      [] skuId = "1010010001" -> "Cloud Identity Free"
      [] OTHER -> skuId

\* getCutoffDate(CONFIG.INACTIVITY_DAYS) at the time of the run.
RunCutoff == MaxTime - 1

\* now - 180 days in getLoginActivityFromReports; INACTIVITY_DAYS is 180, so
\* it is the cutoff.
MaxReportsHistory == RunCutoff

\* Organisational-unit paths are sequences of text chunks; the path is their
\* concatenation.
LegalHoldOU == << "/LH - legal hold" >>

\* CONFIG.EXCLUDE_ADMINS, the same in both scripts that have it.
EXCLUDE_ADMINS == TRUE

\* CONFIG.EXCLUDED_OU_PATHS of each script.
EXCLUDED_OU_PATHS(script) ==
    IF script = "manage" THEN << LegalHoldOU >> ELSE << >>

\* The configurations a run can have: the flags an operator edits.
RunConfigs ==
    {[script |-> "eplus", DRY_RUN |-> d] : d \in BOOLEAN}
    \cup {[script |-> "manage", DRY_RUN |-> d, ASSIGN_CLOUD_IDENTITY_FREE |-> a] :
            d \in BOOLEAN, a \in BOOLEAN}
    \cup {[script |-> "suspend180", PERFORM_SUSPENSION |-> p, TRANSFER_TO_MANAGER |-> t] :
            p \in BOOLEAN, t \in BOOLEAN}

\* The addresses of the directory, by position.
RunEmails == << "ann@corp", "Bob@corp", "CY@corp", "dee@corp", "Eve@corp" >>

\* What a user of the domain looks like to the three providers: the directory
\* fields, the time of the user's login event (if any), and the SKUs held.
UserKinds ==
    { \* never logged in, target license, no orgUnitPath
      [dir |-> None, ev |-> None, suspended |-> FALSE, isAdmin |-> FALSE,
       isDelegatedAdmin |-> FALSE, ou |-> None, skus |-> << TARGET_SKU_ID >>],
      \* stale in both sources, another license ahead of the target
      [dir |-> Some(RunCutoff - 1), ev |-> Some(RunCutoff - 1), suspended |-> FALSE,
       isAdmin |-> FALSE, isDelegatedAdmin |-> FALSE, ou |-> Some(<< "/Sales" >>),
       skus |-> << OTHER_SKU_ID, TARGET_SKU_ID >>],
      \* a login event at the cutoff, stale directory field
      [dir |-> Some(RunCutoff - 1), ev |-> Some(RunCutoff), suspended |-> FALSE,
       isAdmin |-> FALSE, isDelegatedAdmin |-> FALSE, ou |-> Some(<< "/Sales" >>),
       skus |-> << TARGET_SKU_ID >>],
      \* a recent directory login only
      [dir |-> Some(MaxTime), ev |-> None, suspended |-> FALSE, isAdmin |-> FALSE,
       isDelegatedAdmin |-> FALSE, ou |-> Some(<< "/Sales" >>),
       skus |-> << TARGET_SKU_ID >>],
      \* inactive, no license assignment at all
      [dir |-> None, ev |-> None, suspended |-> FALSE, isAdmin |-> FALSE,
       isDelegatedAdmin |-> FALSE, ou |-> Some(<< "/Sales" >>), skus |-> << >>],
      \* inactive, licensed, but not with the target SKU
      [dir |-> None, ev |-> None, suspended |-> FALSE, isAdmin |-> FALSE,
       isDelegatedAdmin |-> FALSE, ou |-> Some(<< "/Sales" >>),
       skus |-> << OTHER_SKU_ID >>],
      \* inactive, target license, already suspended
      [dir |-> Some(RunCutoff - 1), ev |-> None, suspended |-> TRUE, isAdmin |-> FALSE,
       isDelegatedAdmin |-> FALSE, ou |-> Some(<< "/Sales" >>),
       skus |-> << TARGET_SKU_ID >>],
      \* inactive, target license, super admin
      [dir |-> None, ev |-> None, suspended |-> FALSE, isAdmin |-> TRUE,
       isDelegatedAdmin |-> FALSE, ou |-> Some(<< "/" >>),
       skus |-> << TARGET_SKU_ID >>],
      \* inactive, target license, delegated admin
      [dir |-> None, ev |-> None, suspended |-> FALSE, isAdmin |-> FALSE,
       isDelegatedAdmin |-> TRUE, ou |-> Some(<< "/Sales" >>),
       skus |-> << TARGET_SKU_ID >>],
      \* inactive, target license, below the legal-hold unit
      [dir |-> None, ev |-> None, suspended |-> FALSE, isAdmin |-> FALSE,
       isDelegatedAdmin |-> FALSE, ou |-> Some(<< "/LH - legal hold", "/Case 7" >>),
       skus |-> << TARGET_SKU_ID >>] }

\* The kinds a run of the script can tell apart: the suspend180 script reads
\* neither the admin flags nor the organisational unit.
KindsFor(script) ==
    IF script = "suspend180"
    THEN {k \in UserKinds : ~k.isAdmin /\ ~k.isDelegatedAdmin
                              /\ k.ou \in {None, Some(<< "/Sales" >>)}}
    ELSE UserKinds

\* The user resource Users.list returns for the user at position i.
DirectoryUser(i, kind) ==
    [primaryEmail |-> RunEmails[i], lastLoginTime |-> kind.dir,
     suspended |-> kind.suspended, isAdmin |-> kind.isAdmin,
     isDelegatedAdmin |-> kind.isDelegatedAdmin, orgUnitPath |-> kind.ou]

\* The login events the audit provider holds, in directory order.
RECURSIVE ProviderEvents(_, _)
ProviderEvents(population, i) ==
    IF i > Len(population) THEN << >>
    ELSE (IF Present(population[i].ev)
          THEN << [email |-> Some(RunEmails[i]), time |-> population[i].ev[1]] >>
          ELSE << >>)
         \o ProviderEvents(population, i + 1)

\* The license assignments the license provider holds, in directory order.
RECURSIVE ProviderLicenses(_, _)
ProviderLicenses(population, i) ==
    IF i > Len(population) THEN << >>
    ELSE [j \in 1..Len(population[i].skus) |->
             [userId |-> RunEmails[i], skuId |-> population[i].skus[j]]]
         \o ProviderLicenses(population, i + 1)

\* AdminReports.Activities.list('all', 'login', {startTime, endTime}): the
\* events of the window.
ActivitiesList(startDate) ==
    SelectSeq(reportsEvents, LAMBDA a : a.time >= startDate)

\* A mutant of the forEach: the entry of an address is overwritten by every
\* event of the address.
RECURSIVE BuildLoginMapKeepsLast(_, _)
BuildLoginMapKeepsLast(items, loginMap) ==
    IF items = << >> THEN loginMap
    ELSE LET activity == Head(items) IN
         IF ~Present(activity.email) THEN BuildLoginMapKeepsLast(Tail(items), loginMap)
         ELSE BuildLoginMapKeepsLast(Tail(items),
                  (ToLower(activity.email[1]) :> activity.time) @@ loginMap)

\* The forEach of getLoginActivityFromReports: the latest event per address.
RECURSIVE BuildLoginMap(_, _)
BuildLoginMap(items, loginMap) ==
    IF items = << >> THEN loginMap
    ELSE LET activity == Head(items) IN
         IF ~Present(activity.email) THEN BuildLoginMap(Tail(items), loginMap)
         ELSE LET email == ToLower(activity.email[1])
                  known == Lookup(loginMap, email)
              IN IF ~Present(known) \/ activity.time > known[1]
                 THEN BuildLoginMap(Tail(items), (email :> activity.time) @@ loginMap)
                 ELSE BuildLoginMap(Tail(items), loginMap)

\* maxResults of the event listing.
REPORTS_PAGE_SIZE == 2

\* response.items of the request for one page of the window's events.
ActivityPageItems(listed, page) ==
    SubSeq(listed, (page - 1) * REPORTS_PAGE_SIZE + 1,
           IF page * REPORTS_PAGE_SIZE < Len(listed) THEN page * REPORTS_PAGE_SIZE
           ELSE Len(listed))

\* The do/while of getLoginActivityFromReports from one page on.  The loop
\* is inside one try block: a failed request ends it, and the map built
\* from the pages before is returned.
RECURSIVE ListActivityPages(_, _, _)
ListActivityPages(listed, page, loginMap) ==
    IF page = reportsFailAt THEN loginMap
    ELSE LET merged == BuildLoginMap(ActivityPageItems(listed, page), loginMap) IN
         IF page * REPORTS_PAGE_SIZE < Len(listed)
         THEN ListActivityPages(listed, page + 1, merged)
         ELSE merged

getLoginActivityFromReports(cutoffDate) ==
    LET startDate == IF cutoffDate > MaxReportsHistory THEN cutoffDate
                     ELSE MaxReportsHistory
    IN ListActivityPages(ActivitiesList(startDate), 1, EmptyMap)

\* The forEach of getAllLicenseAssignments: address -> the assignments held.
RECURSIVE BuildLicenseMap(_, _)
BuildLicenseMap(items, licenseMap) ==
    IF items = << >> THEN licenseMap
    ELSE LET item == Head(items)
             userEmail == ToLower(item.userId)
             held == Lookup(licenseMap, userEmail)
             entry == [skuId |-> item.skuId, skuName |-> getSkuName(item.skuId)]
         IN BuildLicenseMap(Tail(items),
               (userEmail :> ((IF Present(held) THEN held[1] ELSE << >>) \o << entry >>))
               @@ licenseMap)

\* maxResults of LicenseAssignments.listForProduct (1000 in the scripts),
\* scaled down.
LICENSE_PAGE_SIZE == 1

\* response.items of the request for one page.
LicensePageItems(page) ==
    SubSeq(licenseItems, (page - 1) * LICENSE_PAGE_SIZE + 1,
           Min(page * LICENSE_PAGE_SIZE, Len(licenseItems)))

\* response.nextPageToken is set.
HasNextPage(page) == page * LICENSE_PAGE_SIZE < Len(licenseItems)

\* A mutant of the listing: after a failed request the next page is
\* requested all the same.
RECURSIVE ListLicensePagesSkipsFailed(_, _, _)
ListLicensePagesSkipsFailed(page, licenseMap, requested) ==
    LET merged == IF page = licenseFailAt THEN licenseMap
                  ELSE BuildLicenseMap(LicensePageItems(page), licenseMap)
    IN IF HasNextPage(page)
       THEN ListLicensePagesSkipsFailed(page + 1, merged, Append(requested, page))
       ELSE [licenseMap |-> merged, requested |-> Append(requested, page)]

\* The do/while of getAllLicenseAssignments from one page on: the map built
\* and the pages requested.  A failed request ends the loop (catch, break).
RECURSIVE ListLicensePages(_, _, _)
ListLicensePages(page, licenseMap, requested) ==
    IF page = licenseFailAt
    THEN [licenseMap |-> licenseMap, requested |-> Append(requested, page)]
    ELSE LET merged == BuildLicenseMap(LicensePageItems(page), licenseMap) IN
         IF HasNextPage(page)
         THEN ListLicensePages(page + 1, merged, Append(requested, page))
         ELSE [licenseMap |-> merged, requested |-> Append(requested, page)]

getAllLicenseAssignments == ListLicensePages(1, EmptyMap, << >>).licenseMap

\* A listed user object before the script has set any property on it.
ListedUser(u) ==
    [primaryEmail |-> u.primaryEmail, lastLoginTime |-> u.lastLoginTime,
     suspended |-> u.suspended, isAdmin |-> u.isAdmin,
     isDelegatedAdmin |-> u.isDelegatedAdmin, orgUnitPath |-> u.orgUnitPath,
     licenseString |-> None, hasTargetLicense |-> FALSE,
     excluded |-> FALSE, exclusionReason |-> None]

UsersList == [i \in 1..Len(dirUsers) |-> ListedUser(dirUsers[i])]

\* The filter callback of getInactiveUsers in the suspend180 script.
FilterInactiveSuspend(user, reportsLoginData, cutoffDate) ==
    LET entry == Lookup(reportsLoginData, ToLower(user.primaryEmail)) IN
    IF Present(entry) THEN ~(entry[1] >= cutoffDate)
    ELSE IF Present(user.lastLoginTime) THEN ~(user.lastLoginTime[1] >= cutoffDate)
    ELSE TRUE

RECURSIVE FilterUsersSuspend(_, _, _)
FilterUsersSuspend(list, reportsLoginData, cutoffDate) ==
    IF list = << >> THEN << >>
    ELSE LET u == Head(list)
             rest == FilterUsersSuspend(Tail(list), reportsLoginData, cutoffDate)
         IN IF FilterInactiveSuspend(u, reportsLoginData, cutoffDate)
            THEN << StoreLastLogin(u, reportsLoginData) >> \o rest
            ELSE rest

\* getInactiveUsers(cutoffDate) of the running script.
RunInactiveUsers(script) ==
    LET reportsLoginData == getLoginActivityFromReports(RunCutoff) IN
    IF script = "suspend180"
    THEN FilterUsersSuspend(UsersList, reportsLoginData, RunCutoff)
    ELSE getInactiveUsers(UsersList, reportsLoginData, RunCutoff)

\* ------------------------------------------------------------------------
\* Suspension scripts: exclusion, selection, cap and the action executors
\* ------------------------------------------------------------------------

\* String.prototype.startsWith on chunked paths.
StartsWith(path, prefix) ==
    Len(prefix) <= Len(path) /\ SubSeq(path, 1, Len(prefix)) = prefix

\* user.orgUnitPath || '/'
OrgUnitOf(user) ==
    IF Present(user.orgUnitPath) THEN user.orgUnitPath[1] ELSE << "/" >>

shouldExcludeUser(user, script) ==
    IF EXCLUDE_ADMINS /\ (user.isAdmin \/ user.isDelegatedAdmin) THEN TRUE
    ELSE IF Len(EXCLUDED_OU_PATHS(script)) > 0
            /\ \E k \in 1..Len(EXCLUDED_OU_PATHS(script)) :
                  StartsWith(OrgUnitOf(user), EXCLUDED_OU_PATHS(script)[k])
         THEN TRUE
         ELSE FALSE

\* A mutant of getExclusionReason: the organisational unit is looked at
\* before the admin flags.
getExclusionReasonOuFirst(user, script) ==
    LET matches == {k \in 1..Len(EXCLUDED_OU_PATHS(script)) :
                       StartsWith(OrgUnitOf(user), EXCLUDED_OU_PATHS(script)[k])}
    IN IF matches # {}
       THEN << "In excluded OU" >>
            \o EXCLUDED_OU_PATHS(script)[CHOOSE k \in matches : \A m \in matches : k <= m]
       ELSE IF EXCLUDE_ADMINS /\ (user.isAdmin \/ user.isDelegatedAdmin)
       THEN << "Admin user" >>
       ELSE << "Unknown" >>

getExclusionReason(user, script) ==
    IF EXCLUDE_ADMINS /\ (user.isAdmin \/ user.isDelegatedAdmin) THEN << "Admin user" >>
    ELSE LET matches == {k \in 1..Len(EXCLUDED_OU_PATHS(script)) :
                            StartsWith(OrgUnitOf(user), EXCLUDED_OU_PATHS(script)[k])}
         IN IF matches # {}
            THEN << "In excluded OU" >>
                 \o EXCLUDED_OU_PATHS(script)[CHOOSE k \in matches : \A m \in matches : k <= m]
            ELSE << "Unknown" >>

\* userLicenses.some(l => l.skuId === CONFIG.TARGET_SKU_ID)
HasTarget(userLicenses) ==
    \E j \in 1..Len(userLicenses) : userLicenses[j].skuId = TARGET_SKU_ID

\* userLicenses.map(l => getSkuName(l.skuId)).join(', '), kept as the list of
\* names.
LicenseString(userLicenses) ==
    [j \in 1..Len(userLicenses) |-> getSkuName(userLicenses[j].skuId)]

\* A mutant of the selection: the suspended flag is not consulted.
ToSuspendIgnoresSuspended(user, licenseMap, script) ==
    LET entry == Lookup(licenseMap, ToLower(user.primaryEmail)) IN
    /\ Present(entry)
    /\ HasTarget(entry[1])
    /\ ~shouldExcludeUser(user, script)

\* A mutant of the selection: the exclusion rules are not consulted.
ToSuspendIgnoresExclusion(user, licenseMap, script) ==
    LET entry == Lookup(licenseMap, ToLower(user.primaryEmail)) IN
    /\ Present(entry)
    /\ HasTarget(entry[1])
    /\ ~user.suspended

\* Step 3 of the eplus and manage scripts: whether the inactive user is
\* pushed on the list handed to the executor.
ToSuspend(user, licenseMap, script) ==
    LET entry == Lookup(licenseMap, ToLower(user.primaryEmail)) IN
    /\ Present(entry)
    /\ HasTarget(entry[1])
    /\ ~user.suspended
    /\ ~shouldExcludeUser(user, script)

\* Step 3 of the eplus and manage scripts: the properties set on the user.
AnnotateUser(user, licenseMap, script) ==
    LET entry == Lookup(licenseMap, ToLower(user.primaryEmail)) IN
    IF Present(entry)
    THEN LET licensed == [user EXCEPT !.licenseString = Some(LicenseString(entry[1])),
                                      !.hasTargetLicense = HasTarget(entry[1])]
         IN IF HasTarget(entry[1]) /\ ~user.suspended /\ shouldExcludeUser(user, script)
            THEN [licensed EXCEPT !.excluded = TRUE,
                                  !.exclusionReason = Some(getExclusionReason(user, script))]
            ELSE licensed
    ELSE [user EXCEPT !.licenseString = Some(<< "No licenses" >>),
                      !.hasTargetLicense = FALSE]

\* A mutant of the safety limit: the list is never cut.
ApplyCapNever(usersToSuspend) == usersToSuspend

\* Step 4: usersToSuspend.splice(CONFIG.MAX_SUSPEND_COUNT) when the list is
\* longer than the limit.
ApplyCap(usersToSuspend) ==
    IF Len(usersToSuspend) > MAX_SUSPEND_COUNT
    THEN SubSeq(usersToSuspend, 1, MAX_SUSPEND_COUNT)
    ELSE usersToSuspend

\* e.message of a failed provider call.
ErrorMessage(api) ==
    CASE api = "Users.update" -> "update refused"
      [] api = "LicenseAssignments.remove" -> "remove refused"
      [] api = "LicenseAssignments.insert" -> "insert refused"
      [] OTHER -> "transfer refused"

\* One mutating provider call, as the provider saw it.
Call(api, userKey, ok) == [api |-> api, user |-> userKey, ok |-> ok]

\* A mutant of suspendUsers: the dry-run flag is not consulted.
suspendUsersAlwaysLive(user, dryRun, ok) ==
    LET result == [email |-> user.primaryEmail, orgUnitPath |-> OrgUnitOf(user),
                   lastLoginTime |-> user.lastLoginTime,
                   licenseString |-> user.licenseString,
                   suspended |-> FALSE, status |-> << "Pending" >>, error |-> None]
    IN IF ok.update
       THEN [result |-> [result EXCEPT !.status = << "Successfully suspended" >>,
                                       !.suspended = TRUE],
             calls |-> << Call("Users.update", user.primaryEmail, TRUE) >>]
       ELSE [result |-> [result EXCEPT !.status = << "Failed to suspend" >>,
                                       !.error = Some(ErrorMessage("Users.update"))],
             calls |-> << Call("Users.update", user.primaryEmail, FALSE) >>]

\* The forEach callback of suspendUsers (eplus) for one user: the record it
\* pushes and the mutating calls it makes.  ok tells which provider calls
\* succeed.
suspendUsers(user, dryRun, ok) ==
    LET result == [email |-> user.primaryEmail, orgUnitPath |-> OrgUnitOf(user),
                   lastLoginTime |-> user.lastLoginTime,
                   licenseString |-> user.licenseString,
                   suspended |-> FALSE, status |-> << "Pending" >>, error |-> None]
    IN IF dryRun
       THEN [result |-> [result EXCEPT !.status = << "DRY RUN - Would suspend" >>,
                                       !.suspended = FALSE],
             calls |-> << >>]
       ELSE IF ok.update
       THEN [result |-> [result EXCEPT !.status = << "Successfully suspended" >>,
                                       !.suspended = TRUE],
             calls |-> << Call("Users.update", user.primaryEmail, TRUE) >>]
       ELSE [result |-> [result EXCEPT !.status = << "Failed to suspend" >>,
                                       !.error = Some(ErrorMessage("Users.update"))],
             calls |-> << Call("Users.update", user.primaryEmail, FALSE) >>]

\* A mutant of suspendAndChangeLicenses: a later failure overwrites the
\* error an earlier step recorded.
suspendAndChangeLicensesLastError(user, dryRun, assign, ok) ==
    LET result == [email |-> user.primaryEmail, orgUnitPath |-> OrgUnitOf(user),
                   lastLoginTime |-> user.lastLoginTime,
                   originalLicenses |-> user.licenseString,
                   suspended |-> FALSE, suspensionStatus |-> << "Pending" >>,
                   licenseRemoved |-> FALSE, licenseRemovalStatus |-> << "Pending" >>,
                   licenseAssigned |-> FALSE, licenseAssignmentStatus |-> << "Pending" >>,
                   newLicenses |-> "", error |-> None]
        step1 == [result EXCEPT !.suspended = TRUE,
                                !.suspensionStatus = << "Successfully suspended" >>]
        step2 == IF ok.remove
                 THEN [step1 EXCEPT !.licenseRemoved = TRUE,
                                    !.licenseRemovalStatus =
                                        << "Removed", getSkuName(TARGET_SKU_ID) >>]
                 ELSE [step1 EXCEPT !.licenseRemovalStatus =
                                        << "Failed", ErrorMessage("LicenseAssignments.remove") >>,
                                    !.error = Some(ErrorMessage("LicenseAssignments.remove"))]
        step3 == IF ~assign
                 THEN [step2 EXCEPT !.licenseAssignmentStatus = << "Skipped (disabled in config)" >>,
                                    !.newLicenses = "No license assigned"]
                 ELSE IF ok.insert
                 THEN [step2 EXCEPT !.licenseAssigned = TRUE,
                                    !.licenseAssignmentStatus =
                                        << "Assigned", getSkuName(CLOUD_IDENTITY_FREE_SKU_ID) >>,
                                    !.newLicenses = getSkuName(CLOUD_IDENTITY_FREE_SKU_ID)]
                 ELSE [step2 EXCEPT !.licenseAssignmentStatus =
                                        << "Failed", ErrorMessage("LicenseAssignments.insert") >>,
                                    !.error = Some(ErrorMessage("LicenseAssignments.insert")),
                                    !.newLicenses = "License assignment failed"]
    IN IF dryRun
       THEN [result |->
                [result EXCEPT
                   !.suspensionStatus = << "DRY RUN - Would suspend" >>,
                   !.licenseRemovalStatus =
                       << "DRY RUN - Would remove", getSkuName(TARGET_SKU_ID) >>,
                   !.licenseAssignmentStatus =
                       IF assign
                       THEN << "DRY RUN - Would assign", getSkuName(CLOUD_IDENTITY_FREE_SKU_ID) >>
                       ELSE << "Skipped (disabled in config)" >>,
                   !.newLicenses =
                       IF assign THEN getSkuName(CLOUD_IDENTITY_FREE_SKU_ID)
                       ELSE "No license assigned"],
             calls |-> << >>]
       ELSE IF ~ok.update
       THEN [result |->
                [result EXCEPT
                   !.suspensionStatus = << "Failed", ErrorMessage("Users.update") >>,
                   !.error = Some(ErrorMessage("Users.update"))],
             calls |-> << Call("Users.update", user.primaryEmail, FALSE) >>]
       ELSE [result |-> step3,
             calls |-> << Call("Users.update", user.primaryEmail, TRUE),
                          Call("LicenseAssignments.remove", user.primaryEmail, ok.remove) >>
                       \o (IF assign
                           THEN << Call("LicenseAssignments.insert", user.primaryEmail, ok.insert) >>
                           ELSE << >>)]

\* The forEach callback of suspendAndChangeLicenses (manage) for one user:
\* the record it pushes and the mutating calls it makes.
suspendAndChangeLicenses(user, dryRun, assign, ok) ==
    LET result == [email |-> user.primaryEmail, orgUnitPath |-> OrgUnitOf(user),
                   lastLoginTime |-> user.lastLoginTime,
                   originalLicenses |-> user.licenseString,
                   suspended |-> FALSE, suspensionStatus |-> << "Pending" >>,
                   licenseRemoved |-> FALSE, licenseRemovalStatus |-> << "Pending" >>,
                   licenseAssigned |-> FALSE, licenseAssignmentStatus |-> << "Pending" >>,
                   newLicenses |-> "", error |-> None]
        \* STEP 1 succeeded
        step1 == [result EXCEPT !.suspended = TRUE,
                                !.suspensionStatus = << "Successfully suspended" >>]
        \* STEP 2: a failure is recorded and the callback goes on
        step2 == IF ok.remove
                 THEN [step1 EXCEPT !.licenseRemoved = TRUE,
                                    !.licenseRemovalStatus =
                                        << "Removed", getSkuName(TARGET_SKU_ID) >>]
                 ELSE [step1 EXCEPT !.licenseRemovalStatus =
                                        << "Failed", ErrorMessage("LicenseAssignments.remove") >>,
                                    !.error = IF ~Present(step1.error)
                                              THEN Some(ErrorMessage("LicenseAssignments.remove"))
                                              ELSE step1.error]
        \* STEP 3
        step3 == IF ~assign
                 THEN [step2 EXCEPT !.licenseAssignmentStatus = << "Skipped (disabled in config)" >>,
                                    !.newLicenses = "No license assigned"]
                 ELSE IF ok.insert
                 THEN [step2 EXCEPT !.licenseAssigned = TRUE,
                                    !.licenseAssignmentStatus =
                                        << "Assigned", getSkuName(CLOUD_IDENTITY_FREE_SKU_ID) >>,
                                    !.newLicenses = getSkuName(CLOUD_IDENTITY_FREE_SKU_ID)]
                 ELSE [step2 EXCEPT !.licenseAssignmentStatus =
                                        << "Failed", ErrorMessage("LicenseAssignments.insert") >>,
                                    !.error = IF ~Present(step2.error)
                                              THEN Some(ErrorMessage("LicenseAssignments.insert"))
                                              ELSE step2.error,
                                    !.newLicenses = "License assignment failed"]
    IN IF dryRun
       THEN [result |->
                [result EXCEPT
                   !.suspensionStatus = << "DRY RUN - Would suspend" >>,
                   !.licenseRemovalStatus =
                       << "DRY RUN - Would remove", getSkuName(TARGET_SKU_ID) >>,
                   !.licenseAssignmentStatus =
                       IF assign
                       THEN << "DRY RUN - Would assign", getSkuName(CLOUD_IDENTITY_FREE_SKU_ID) >>
                       ELSE << "Skipped (disabled in config)" >>,
                   !.newLicenses =
                       IF assign THEN getSkuName(CLOUD_IDENTITY_FREE_SKU_ID)
                       ELSE "No license assigned"],
             calls |-> << >>]
       ELSE IF ~ok.update
       \* STEP 1 failed: the record is pushed and the callback returns
       THEN [result |->
                [result EXCEPT
                   !.suspensionStatus = << "Failed", ErrorMessage("Users.update") >>,
                   !.error = Some(ErrorMessage("Users.update"))],
             calls |-> << Call("Users.update", user.primaryEmail, FALSE) >>]
       ELSE [result |-> step3,
             calls |-> << Call("Users.update", user.primaryEmail, TRUE),
                          Call("LicenseAssignments.remove", user.primaryEmail, ok.remove) >>
                       \o (IF assign
                           THEN << Call("LicenseAssignments.insert", user.primaryEmail, ok.insert) >>
                           ELSE << >>)]

\* transferFilesToManager (suspend180): the status string it returns and the
\* mutating call it makes.
transferFilesToManager(userEmail, ok) ==
    IF ~Present(ok.manager)
    THEN [status |-> << "Skipped - No Manager Found" >>, calls |-> << >>]
    ELSE IF ok.transfer
    THEN [status |-> << "Initiated", ok.manager[1] >>,
          calls |-> << Call("Transfers.insert", userEmail, TRUE) >>]
    ELSE [status |-> << "Failed", ErrorMessage("Transfers.insert") >>,
          calls |-> << Call("Transfers.insert", userEmail, FALSE) >>]

\* The forEach callback of suspendInactiveUsers (suspend180) for one inactive
\* user: the user object it pushes on suspendedUsers (if any) and the
\* mutating calls it makes.
suspendInactiveUsers(user, licenseMap, perform, transfer, ok) ==
    LET userEmail == ToLower(user.primaryEmail)
        entry == Lookup(licenseMap, userEmail)
        licensed == [user EXCEPT !.licenseString = Some(LicenseString(entry[1]))]
        Pushed(u, actionStatus, transferStatus) ==
            Some([actionStatus |-> actionStatus, transferStatus |-> transferStatus] @@ u)
    IN IF ~Present(entry) THEN [pushed |-> None, calls |-> << >>]
       ELSE IF ~HasTarget(entry[1]) THEN [pushed |-> None, calls |-> << >>]
       ELSE IF ~perform
       THEN [pushed |-> Pushed(licensed, << "Dry Run - Would Suspend" >>, << "N/A" >>),
             calls |-> << >>]
       ELSE IF user.suspended
       THEN [pushed |-> Pushed(licensed, << "Already Suspended" >>, << "N/A" >>),
             calls |-> << >>]
       ELSE IF ~ok.update
       THEN [pushed |-> Pushed(licensed, << "Error", ErrorMessage("Users.update") >>,
                               << "N/A" >>),
             calls |-> << Call("Users.update", userEmail, FALSE) >>]
       ELSE LET moved == IF transfer THEN transferFilesToManager(userEmail, ok)
                         ELSE [status |-> << "N/A" >>, calls |-> << >>]
            IN [pushed |-> Pushed([licensed EXCEPT !.suspended = TRUE],
                                  << "SUSPENDED" >>, moved.status),
                calls |-> << Call("Users.update", userEmail, TRUE) >> \o moved.calls]

\* What the providers may answer to the calls made for one user.
ProviderOutcomes ==
    [update : BOOLEAN, remove : BOOLEAN, insert : BOOLEAN,
     manager : {None, Some("boss@corp")}, transfer : BOOLEAN]

\* The answers that can make a difference to each script: a call that is
\* never reached (after a failed suspension, with the replacement license
\* or the transfer disabled, without a manager) has no answer to give.
EplusOutcomes ==
    {o \in ProviderOutcomes :
        o.remove /\ o.insert /\ ~Present(o.manager) /\ o.transfer}

ManageOutcomes(assign) ==
    {o \in ProviderOutcomes :
        /\ ~Present(o.manager) /\ o.transfer
        /\ (~o.update => o.remove /\ o.insert)
        /\ (~assign => o.insert)}

SuspendOutcomes(transfer) ==
    {o \in ProviderOutcomes :
        /\ o.remove /\ o.insert
        /\ (~o.update \/ ~transfer => ~Present(o.manager) /\ o.transfer)
        /\ (~Present(o.manager) => o.transfer)}

\* A mutant of the loop: it ends at the first record with an error.
ForEachStopsOnError(index, users, result) ==
    IF Present(result.error) THEN Len(users) + 1 ELSE index + 1

\* users.forEach: the callback's outcome never ends the loop.
ForEachNext(index, users, result) == index + 1

\* ------------------------------------------------------------------------
\* Suspension scripts: the runs
\* ------------------------------------------------------------------------

\* The last step of each main function, once the executor's loop is over:
\* exportSuspensionReport / exportLicenseManagementReport with all inactive
\* users and the result records; exportToSheet in the suspend180 script, only
\* when a user was processed.
ExportReport(script, allInactiveUsers, processed) ==
    IF script = "suspend180"
    THEN (IF Len(processed) > 0 THEN Some([results |-> processed]) ELSE None)
    ELSE Some([allInactiveUsers |-> allInactiveUsers, results |-> processed])

\* Steps 1 to 4 of suspendInactiveEnterpriseUsers and of
\* suspendAndManageLicenses: license index, inactive users, selection, cap.
\* With no inactive user the function returns at once; with no user left to
\* process the executor returns an empty list and the report is written.
SelectAndCap(script) ==
    /\ pc = "idle"
    /\ config.script = script
    /\ \E licenseMap \in {getAllLicenseAssignments} :
       \E inactive \in {RunInactiveUsers(script)} :
       \E annotated \in {[i \in 1..Len(inactive) |->
                            AnnotateUser(inactive[i], licenseMap, script)]} :
       \E usersToSuspend \in {SelectSeq(annotated,
                                LAMBDA u : ToSuspend(u, licenseMap, script))} :
          IF Len(inactive) = 0
          THEN /\ pc' = "done"
               /\ UNCHANGED << inactiveUsers, usersToProcess, loopIndex, report >>
          ELSE /\ inactiveUsers' = annotated
               /\ usersToProcess' = ApplyCap(usersToSuspend)
               /\ loopIndex' = 1
               /\ IF Len(usersToSuspend) = 0
                  THEN /\ pc' = "done"
                       /\ report' = ExportReport(script, annotated, << >>)
                  ELSE /\ pc' = "processing"
                       /\ UNCHANGED report
    /\ UNCHANGED << config, dirUsers, reportsEvents, licenseItems, licenseFailAt, reportsFailAt, results, calls >>
    /\ UNCHANGED << classifyVars, batchVars >>

\* What one iteration of an executor's loop leaves: the record and the calls
\* are added, and after the last user the main function writes its report
\* and returns.
LoopStep(pushed, made, next) ==
    /\ results' = results \o pushed
    /\ calls' = calls \o made
    /\ loopIndex' = next
    /\ IF next > Len(usersToProcess)
       THEN /\ pc' = "done"
            /\ report' = ExportReport(config.script, inactiveUsers, results \o pushed)
       ELSE UNCHANGED << pc, report >>
    /\ UNCHANGED << config, dirUsers, reportsEvents, licenseItems, licenseFailAt, reportsFailAt,
                    inactiveUsers,
                    usersToProcess >>
    /\ UNCHANGED << classifyVars, batchVars >>

EplusStart == SelectAndCap("eplus")

\* One iteration of the forEach in suspendUsers.
EplusStep ==
    /\ pc = "processing"
    /\ config.script = "eplus"
    /\ loopIndex <= Len(usersToProcess)
    /\ \E ok \in EplusOutcomes :
          \E out \in {suspendUsers(usersToProcess[loopIndex], config.DRY_RUN, ok)} :
          LoopStep(<< out.result >>, out.calls,
                   ForEachNext(loopIndex, usersToProcess, out.result))

ManageStart == SelectAndCap("manage")

\* One iteration of the forEach in suspendAndChangeLicenses.
ManageStep ==
    /\ pc = "processing"
    /\ config.script = "manage"
    /\ loopIndex <= Len(usersToProcess)
    /\ \E ok \in ManageOutcomes(config.ASSIGN_CLOUD_IDENTITY_FREE) :
          \E out \in {suspendAndChangeLicenses(usersToProcess[loopIndex], config.DRY_RUN,
                                                config.ASSIGN_CLOUD_IDENTITY_FREE, ok)} :
          LoopStep(<< out.result >>, out.calls,
                   ForEachNext(loopIndex, usersToProcess, out.result))

\* Steps 1 and 2 of suspendInactiveUsers; the loop of step 3 runs over every
\* inactive user.
SuspendStart ==
    /\ pc = "idle"
    /\ config.script = "suspend180"
    /\ \E inactive \in {RunInactiveUsers("suspend180")} :
       IF Len(inactive) = 0
       THEN /\ pc' = "done"
            /\ UNCHANGED << inactiveUsers, usersToProcess, loopIndex >>
       ELSE /\ pc' = "processing"
            /\ inactiveUsers' = inactive
            /\ usersToProcess' = inactive
            /\ loopIndex' = 1
    /\ UNCHANGED << config, dirUsers, reportsEvents, licenseItems, licenseFailAt, reportsFailAt, results, calls, report >>
    /\ UNCHANGED << classifyVars, batchVars >>

\* One iteration of the forEach in suspendInactiveUsers.
SuspendStep ==
    /\ pc = "processing"
    /\ config.script = "suspend180"
    /\ loopIndex <= Len(usersToProcess)
    /\ \E ok \in SuspendOutcomes(config.TRANSFER_TO_MANAGER) :
          \E out \in {suspendInactiveUsers(usersToProcess[loopIndex],
                                            getAllLicenseAssignments,
                                            config.PERFORM_SUSPENSION,
                                            config.TRANSFER_TO_MANAGER, ok)} :
          LoopStep(out.pushed, out.calls, loopIndex + 1)

RunInit ==
    /\ config \in RunConfigs
    /\ \E n \in 0..MaxUsers :
          \E population \in [1..n -> KindsFor(config.script)] :
             /\ dirUsers = [i \in 1..n |-> DirectoryUser(i, population[i])]
             /\ reportsEvents = ProviderEvents(population, 1)
             /\ licenseItems = ProviderLicenses(population, 1)
    /\ licenseFailAt = 0
    /\ reportsFailAt = 0
    /\ pc = "idle"
    /\ inactiveUsers = << >>
    /\ usersToProcess = << >>
    /\ loopIndex = 0
    /\ results = << >>
    /\ calls = << >>
    /\ report = None
    /\ ClassifyIdle
    /\ BatchIdle

RunNext ==
    \/ EplusStart \/ EplusStep
    \/ ManageStart \/ ManageStep
    \/ SuspendStart \/ SuspendStep

SpecRun == RunInit /\ [][RunNext]_vars

\* ------------------------------------------------------------------------
\* One user through the eplus and manage scripts, over every combination of
\* the fields the two scripts read
\* ------------------------------------------------------------------------

\* The orgUnitPath values of the probed user: missing, the root, a unit
\* outside the legal hold, the legal-hold unit, a unit below it, and a
\* sibling whose name continues the legal-hold path.
ProbeOrgUnits ==
    {None, Some(<< "/" >>), Some(<< "/Sales" >>), Some(LegalHoldOU),
     Some(LegalHoldOU \o << "/Case 7" >>), Some(LegalHoldOU \o << " 2" >>)}

ProbeLogins == {None, Some(RunCutoff - 1), Some(RunCutoff)}

ProbeSkus ==
    {<< >>, << OTHER_SKU_ID >>, << TARGET_SKU_ID >>, << OTHER_SKU_ID, TARGET_SKU_ID >>}

ProbeKinds ==
    [dir : ProbeLogins, ev : ProbeLogins, suspended : BOOLEAN, isAdmin : BOOLEAN,
     isDelegatedAdmin : BOOLEAN, ou : ProbeOrgUnits, skus : ProbeSkus]

CappedConfigs == {c \in RunConfigs : c.script \in {"eplus", "manage"}}

OneUserInit ==
    /\ config \in CappedConfigs
    /\ \E kind \in ProbeKinds :
          /\ dirUsers = << DirectoryUser(1, kind) >>
          /\ reportsEvents = ProviderEvents(<< kind >>, 1)
          /\ licenseItems = ProviderLicenses(<< kind >>, 1)
    /\ licenseFailAt = 0
    /\ reportsFailAt = 0
    /\ pc = "idle"
    /\ inactiveUsers = << >>
    /\ usersToProcess = << >>
    /\ loopIndex = 0
    /\ results = << >>
    /\ calls = << >>
    /\ report = None
    /\ probe = [email |-> "ann@corp", ev |-> None, dir |-> None, cutoff |-> 0]
    /\ verdict = [excluded |-> None, reason |-> None]
    /\ BatchIdle

\* shouldExcludeUser and getExclusionReason applied to the listed user.
ExplainExclusion ==
    /\ verdict.excluded = None
    /\ verdict' = [excluded |-> Some(shouldExcludeUser(ListedUser(dirUsers[1]), config.script)),
                   reason |-> Some(getExclusionReason(ListedUser(dirUsers[1]), config.script))]
    /\ UNCHANGED << probe, runVars, batchVars >>

OneUserNext ==
    \/ EplusStart \/ EplusStep
    \/ ManageStart \/ ManageStep
    \/ ExplainExclusion

SpecOneUser == OneUserInit /\ [][OneUserNext]_vars

\* ------------------------------------------------------------------------
\* SpecClassify: the classifiers applied to every input of the bounded sets
\* ------------------------------------------------------------------------

ProbeEmails == {"ann@corp", "Bob@corp"}

ProbeUser(p) == [primaryEmail |-> p.email, lastLoginTime |-> p.dir]

\* The login map getLoginActivityFromReports hands to the classifier: an
\* entry under the lower-cased e-mail when the event source saw the user.
ProbeLoginMap(p) ==
    IF Present(p.ev) THEN (ToLower(p.email) :> p.ev[1]) ELSE EmptyMap

ClassifyInit ==
    /\ probe \in [email : ProbeEmails, ev : OptTimes, dir : OptTimes, cutoff : Times]
    /\ verdict = [auto |-> None, licensed |-> None]
    /\ BatchIdle
    /\ RunIdle

\* getInactiveUsers on a directory page holding the probe user.
ClassifyAutoRun ==
    /\ verdict.auto = None
    /\ verdict' = [verdict EXCEPT !.auto =
          Some(getInactiveUsers(<< ProbeUser(probe) >>, ProbeLoginMap(probe), probe.cutoff))]
    /\ UNCHANGED << probe, batchVars, runVars >>

\* checkIfUserInactive on the probe user.
ClassifyLicensedFirst ==
    /\ verdict.licensed = None
    /\ verdict' = [verdict EXCEPT !.licensed =
          Some(checkIfUserInactive(ProbeUser(probe), ProbeLoginMap(probe), probe.cutoff))]
    /\ UNCHANGED << probe, batchVars, runVars >>

ClassifyNext == ClassifyAutoRun \/ ClassifyLicensedFirst

SpecClassify == ClassifyInit /\ [][ClassifyNext]_vars

\* Neither source shows a login at or after the cutoff.
NoRecentLogin(p) ==
    /\ ~(p.ev # None /\ p.ev[1] >= p.cutoff)
    /\ ~(p.dir # None /\ p.dir[1] >= p.cutoff)

\* C1: a user is classified INACTIVE by getInactiveUsers and by
\* checkIfUserInactive exactly when neither the event-source timestamp (when
\* the login map has an entry) nor the directory lastLoginTime (when present)
\* is >= cutoff; absent from both is INACTIVE, equal to the cutoff is ACTIVE.
C1_HybridClassifier ==
    /\ verdict.auto # None =>
          ((Len(verdict.auto[1]) = 1) <=> NoRecentLogin(probe))
    /\ verdict.auto # None => Len(verdict.auto[1]) <= 1
    /\ verdict.licensed # None =>
          (verdict.licensed[1] <=> NoRecentLogin(probe))

\* Both classifiers have run on a user whose event timestamp equals the
\* cutoff while the directory field is older, and on it both said ACTIVE.
C1_Witness ==
    /\ verdict.auto # None /\ verdict.licensed # None
    /\ probe.ev # None /\ probe.ev[1] = probe.cutoff
    /\ probe.dir # None /\ probe.dir[1] < probe.cutoff
    /\ verdict.auto[1] = << >>
    /\ verdict.licensed[1] = FALSE

\* ------------------------------------------------------------------------
\* Groups audit: properties (SpecBatch)
\* ------------------------------------------------------------------------

\* The last invocation was auditGroupsWithoutOwners.
AuditReturned == lastRun.op = "audit"

\* The last invocation completed the cycle (it took the "audit complete"
\* branch and emitted the report).
CycleCompleted == AuditReturned /\ lastRun.report # None

RECURSIVE FlaggedAmong(_)
\* The records, in order, of the checked groups that miss a role.
FlaggedAmong(checked) ==
    IF checked = << >> THEN << >>
    ELSE LET c == Head(checked) IN
         (IF c.hasOwner /\ c.hasManager THEN << >> ELSE << c >>)
            \o FlaggedAmong(Tail(checked))

\* C5 (as claimed): the invocation that reaches the end of the list emits
\* the full accumulated results and then clears all checkpoint state:
\* groupsCache, processedIndex and auditResults.
C5_CompletionClearsAll ==
    CycleCompleted =>
        /\ lastRun.report[1].groups = lastRun.savedResults
        /\ processedIndex = None
        /\ auditResults = None
        /\ groupsCache = None

\* The k groups an invocation checked are the k consecutive groups of the
\* list from the old index on, and k is within the batch and below its
\* size only when the time budget was exceeded.
BatchStepShape ==
    LET k == lastRun.currentIndex
        bound == Min(BATCH_SIZE, lastRun.totalGroups - lastRun.batchStart)
    IN /\ 0 <= k /\ k <= bound
       /\ k < bound => lastRun.timedOut
       /\ Len(lastRun.checked) = k
       /\ \A j \in 1..k :
             lastRun.checked[j].groupEmail = groupsCache[1][lastRun.batchStart + j]

\* C6 (as claimed): when an invocation returns, the persisted processedIndex
\* is the old value plus k and the persisted auditResults is the old results
\* followed by the flagged groups among the k groups checked.
C6_BatchStepPersistedAtReturn ==
    AuditReturned =>
        /\ BatchStepShape
        /\ processedIndex = Some(lastRun.batchStart + lastRun.currentIndex)
        /\ auditResults = Some(lastRun.oldResults \o FlaggedAmong(lastRun.checked))

\* C6 (amended): one invocation checks k consecutive groups from the old
\* index on, 0 <= k <= min(BATCH_SIZE, N - old index), k below that bound
\* only when the time budget was exceeded.  When it returns without having
\* reached the end of the list, the persisted processedIndex is old + k and
\* the persisted auditResults is the old results followed by the flagged
\* groups among those k; when old + k reaches N, these results went to the
\* report and both properties are deleted.
C6_BatchStep ==
    AuditReturned =>
        LET newIndex == lastRun.batchStart + lastRun.currentIndex
            newResults == lastRun.oldResults \o FlaggedAmong(lastRun.checked)
        IN /\ BatchStepShape
           /\ IF newIndex < lastRun.totalGroups
              THEN /\ processedIndex = Some(newIndex)
                   /\ auditResults = Some(newResults)
                   /\ lastRun.report = None
              ELSE /\ processedIndex = None
                   /\ auditResults = None
                   /\ lastRun.report =
                         Some([groups |-> newResults,
                               totalGroupsScanned |-> lastRun.totalGroups])

\* An invocation cut short by the time budget resumed from a saved index and
\* saved a later one with one more finding.
C6_Witness ==
    /\ AuditReturned
    /\ lastRun.batchStart > 0
    /\ lastRun.timedOut
    /\ lastRun.currentIndex = 1
    /\ processedIndex = Some(lastRun.batchStart + 1)
    /\ Present(auditResults)
    /\ Len(auditResults[1]) = Len(lastRun.oldResults) + 1

\* C7: from one invocation to the next the persisted processedIndex and the
\* length of the persisted auditResults never decrease; both properties
\* disappear only by resetAudit or by the invocation that completes the
\* cycle.
C7_CheckpointMonotone ==
    [][ /\ (Present(processedIndex) /\ Present(processedIndex'))
            => processedIndex'[1] >= processedIndex[1]
        /\ (Present(auditResults) /\ Present(auditResults'))
            => Len(auditResults'[1]) >= Len(auditResults[1])
        /\ (Present(processedIndex) /\ ~Present(processedIndex'))
            => (lastRun'.op = "reset" \/ (lastRun'.op = "audit" /\ lastRun'.report # None))
        /\ (Present(auditResults) /\ ~Present(auditResults'))
            => (lastRun'.op = "reset" \/ (lastRun'.op = "audit" /\ lastRun'.report # None))
      ]_vars

\* An invocation found progress saved and saved more: a larger index and a
\* longer result list.
C7_Witness ==
    /\ AuditReturned
    /\ lastRun.batchStart > 0
    /\ Len(lastRun.oldResults) > 0
    /\ Present(processedIndex) /\ processedIndex[1] > lastRun.batchStart
    /\ Present(auditResults) /\ Len(auditResults[1]) > Len(lastRun.oldResults)

\* C8: whenever processedIndex is persisted, the group list is cached and
\* 0 <= processedIndex <= length of the cached list.
C8_CheckpointBounds ==
    Present(processedIndex) =>
        /\ Present(groupsCache)
        /\ 0 <= processedIndex[1]
        /\ processedIndex[1] <= Len(groupsCache[1])

\* checkAuditProgress has run on saved progress.
C8_Witness ==
    /\ lastRun.op = "check"
    /\ Present(processedIndex) /\ processedIndex[1] > 0
    /\ Present(groupsCache) /\ processedIndex[1] < Len(groupsCache[1])

\* ------------------------------------------------------------------------
\* Properties of the suspension scripts (SpecRun)
\* ------------------------------------------------------------------------

CappedScript == config.script \in {"eplus", "manage"}

\* The dry-run flag of the running script is set.
DryRunSet ==
    \/ CappedScript /\ config.DRY_RUN
    \/ config.script = "suspend180" /\ ~config.PERFORM_SUSPENSION

LiveRun ==
    \/ CappedScript /\ ~config.DRY_RUN
    \/ config.script = "suspend180" /\ config.PERFORM_SUSPENSION

RunComplete == pc = "done"

SameAddress(a, b) == ToLower(a) = ToLower(b)

\* The record carries the dry-run status of its script.
HasDryRunStatus(record) ==
    CASE config.script = "eplus" -> record.status = << "DRY RUN - Would suspend" >>
      [] config.script = "manage" ->
            record.suspensionStatus = << "DRY RUN - Would suspend" >>
      [] OTHER -> record.actionStatus = << "Dry Run - Would Suspend" >>

RecordAddress(record) ==
    IF CappedScript THEN record.email ELSE record.primaryEmail

\* The suspended flag the directory holds for the address.
DirectorySuspended(address) ==
    \E i \in 1..Len(dirUsers) :
        /\ SameAddress(dirUsers[i].primaryEmail, address)
        /\ dirUsers[i].suspended

\* C2 as stated: after a complete dry run no mutating provider call was
\* issued, and every result record carries a dry-run status with
\* suspended = false.
C2_DryRunRecordsUnsuspended ==
    (RunComplete /\ DryRunSet) =>
        /\ calls = << >>
        /\ \A i \in 1..Len(results) :
              HasDryRunStatus(results[i]) /\ results[i].suspended = FALSE

\* C2, amended: at any point of a dry run no mutating provider call (Users.update,
\* LicenseAssignments.remove, LicenseAssignments.insert, Transfers.insert)
\* has been issued and every result record carries the dry-run status; the
\* record's suspended field is false in suspendUsers and
\* suspendAndChangeLicenses, and in suspendInactiveUsers it is the user's
\* unchanged directory flag.
C2_DryRunInvariant ==
    DryRunSet =>
        /\ calls = << >>
        /\ \A i \in 1..Len(results) :
              /\ HasDryRunStatus(results[i])
              /\ CappedScript => results[i].suspended = FALSE
              /\ config.script = "suspend180" =>
                    results[i].suspended = DirectorySuspended(RecordAddress(results[i]))

\* A complete dry run of the suspend180 script whose records show one user
\* the directory already holds suspended and one it does not.
C2_Witness ==
    /\ RunComplete
    /\ DryRunSet
    /\ config.script = "suspend180"
    /\ calls = << >>
    /\ \E i, j \in 1..Len(results) : results[i].suspended /\ ~results[j].suspended

\* The classification, stated on the providers' data: no login event and no
\* directory login at or after the cutoff.
NoLoginSinceCutoff(u) ==
    /\ \A k \in 1..Len(reportsEvents) :
          (Present(reportsEvents[k].email)
           /\ SameAddress(reportsEvents[k].email[1], u.primaryEmail))
          => reportsEvents[k].time < RunCutoff
    /\ Present(u.lastLoginTime) => u.lastLoginTime[1] < RunCutoff

HoldsTargetSku(u) ==
    \E k \in 1..Len(licenseItems) :
        /\ SameAddress(licenseItems[k].userId, u.primaryEmail)
        /\ licenseItems[k].skuId = TARGET_SKU_ID

ExcludedByRule(u) ==
    \/ EXCLUDE_ADMINS /\ (u.isAdmin \/ u.isDelegatedAdmin)
    \/ \E k \in 1..Len(EXCLUDED_OU_PATHS(config.script)) :
          LET prefix == EXCLUDED_OU_PATHS(config.script)[k]
              path == IF u.orgUnitPath = None THEN << "/" >> ELSE u.orgUnitPath[1]
          IN Len(path) >= Len(prefix) /\ \A c \in 1..Len(prefix) : path[c] = prefix[c]

\* Inactive, holding the target SKU, not suspended, not excluded.
Eligible(u) ==
    /\ NoLoginSinceCutoff(u)
    /\ HoldsTargetSku(u)
    /\ ~u.suspended
    /\ ~ExcludedByRule(u)

\* The addresses of the eligible users from position i on, in the order of
\* enumeration.
RECURSIVE CandidatesFrom(_)
CandidatesFrom(i) ==
    IF i > Len(dirUsers) THEN << >>
    ELSE (IF Eligible(dirUsers[i]) THEN << dirUsers[i].primaryEmail >> ELSE << >>)
         \o CandidatesFrom(i + 1)

Candidates == CandidatesFrom(1)

\* The first min(L, C) of a list of L candidates.
FirstWithinCap(list) == SubSeq(list, 1, Min(Len(list), MAX_SUSPEND_COUNT))

WithinCap == FirstWithinCap(Candidates)

InSeq(x, seq) == \E k \in 1..Len(seq) : seq[k] = x

ResultAddresses == [i \in 1..Len(results) |-> results[i].email]

\* C3: with L candidates left after filtering and cap C, the executor of the
\* eplus and manage scripts produces exactly min(L, C) records, for the first
\* min(L, C) candidates in order, and no candidate beyond the cap ever gets a
\* mutating call or a record.
C3_SafetyCap ==
    CappedScript =>
        \A within \in {WithinCap} :
            /\ \A i \in 1..Len(results) : InSeq(results[i].email, within)
            /\ \A k \in 1..Len(calls) : InSeq(calls[k].user, within)
            /\ RunComplete => ResultAddresses = within

\* A complete live run with more candidates than the cap: the cap's worth
\* of records and calls, the rest untouched.
C3_Witness ==
    /\ CappedScript
    /\ RunComplete
    /\ LiveRun
    /\ Len(Candidates) > MAX_SUSPEND_COUNT
    /\ Len(results) = MAX_SUSPEND_COUNT
    /\ Len(calls) >= MAX_SUSPEND_COUNT
    /\ ~InSeq(Candidates[Len(Candidates)], ResultAddresses)

\* C4: in the eplus and manage scripts every mutating call is for a user
\* who is inactive, holds the target SKU, is not already suspended and is
\* not excluded.
C4_ActionTargeting ==
    CappedScript =>
        \A k \in 1..Len(calls) :
            \E i \in 1..Len(dirUsers) :
                /\ SameAddress(dirUsers[i].primaryEmail, calls[k].user)
                /\ Eligible(dirUsers[i])

\* A complete live run that made calls although the directory also holds an
\* inactive target-licensed user who is suspended or excluded.
C4_Witness ==
    /\ CappedScript
    /\ LiveRun
    /\ RunComplete
    /\ Len(calls) > 0
    /\ \E i \in 1..Len(dirUsers) :
          /\ NoLoginSinceCutoff(dirUsers[i])
          /\ HoldsTargetSku(dirUsers[i])
          /\ dirUsers[i].suspended \/ ExcludedByRule(dirUsers[i])
    /\ \E i \in 1..Len(dirUsers) : ~NoLoginSinceCutoff(dirUsers[i])

\* The mutating calls made for one user, in order.
CallsFor(address) == SelectSeq(calls, LAMBDA c : c.user = address)

\* The position of the first failed call in a list of calls, 0 when none
\* failed.
FirstFailed(list) ==
    IF \E k \in 1..Len(list) : ~list[k].ok
    THEN CHOOSE k \in 1..Len(list) :
            ~list[k].ok /\ \A m \in 1..(k - 1) : list[m].ok
    ELSE 0

ManageLive == config.script = "manage" /\ ~config.DRY_RUN

\* C9 as stated: in the manage script a failed step is the user's last
\* provider call, and the record's error is the message of the first step
\* that failed.
C9_LaterStepsSkipped ==
    ManageLive =>
        \A i \in 1..Len(results) :
            LET made == CallsFor(results[i].email)
                failed == FirstFailed(made)
            IN failed # 0 =>
                  /\ failed = Len(made)
                  /\ results[i].error = Some(ErrorMessage(made[failed].api))

\* C9, amended: a failed suspension is the user's only provider call and the
\* license statuses stay pending; after a successful suspension the license
\* removal is always attempted and, when the replacement license is
\* enabled, its assignment is attempted whether or not the removal failed;
\* every failed step has a failed status and the record's error is the
\* message of the first step that failed (null when none failed).
C9_MultiStepFailure ==
    ManageLive =>
        \A i \in 1..Len(results) :
            LET r == results[i]
                made == CallsFor(r.email)
                failed == FirstFailed(made)
                apis == [k \in 1..Len(made) |-> made[k].api]
            IN /\ Len(made) >= 1
               /\ ~made[1].ok =>
                     /\ apis = << "Users.update" >>
                     /\ ~r.suspended
                     /\ r.suspensionStatus = << "Failed", ErrorMessage("Users.update") >>
                     /\ r.licenseRemovalStatus = << "Pending" >>
                     /\ r.licenseAssignmentStatus = << "Pending" >>
               /\ made[1].ok =>
                     /\ r.suspended
                     /\ apis = IF config.ASSIGN_CLOUD_IDENTITY_FREE
                               THEN << "Users.update", "LicenseAssignments.remove",
                                       "LicenseAssignments.insert" >>
                               ELSE << "Users.update", "LicenseAssignments.remove" >>
                     /\ r.licenseRemoved = made[2].ok
                     /\ ~made[2].ok =>
                           r.licenseRemovalStatus =
                               << "Failed", ErrorMessage("LicenseAssignments.remove") >>
                     /\ config.ASSIGN_CLOUD_IDENTITY_FREE =>
                           /\ r.licenseAssigned = made[3].ok
                           /\ ~made[3].ok =>
                                 r.licenseAssignmentStatus =
                                     << "Failed", ErrorMessage("LicenseAssignments.insert") >>
               /\ r.error = IF failed = 0 THEN None
                            ELSE Some(ErrorMessage(made[failed].api))

\* A record of a user whose license removal failed, whose replacement
\* license was then also refused, and whose error is the removal's message.
C9_Witness ==
    /\ ManageLive
    /\ \E i \in 1..Len(results) :
          LET made == CallsFor(results[i].email) IN
          /\ Len(made) > 2
          /\ made[1].ok /\ ~made[2].ok /\ ~made[3].ok
          /\ results[i].error = Some(ErrorMessage("LicenseAssignments.remove"))

\* C10: a failed mutating call for one user never stops the run of the eplus
\* and manage scripts: when the executor has returned, every candidate within
\* the cap has exactly one record, in candidate order, and in a live run
\* every one of them was attempted, those after a failing user included.
C10_FailureIsolation ==
    (CappedScript /\ RunComplete) =>
        \A within \in {WithinCap} :
            /\ Len(results) = Len(within)
            /\ \A i \in 1..Len(within) : results[i].email = within[i]
            /\ LiveRun =>
                  \A i \in 1..Len(within) :
                      \E k \in 1..Len(calls) :
                          calls[k].api = "Users.update" /\ calls[k].user = within[i]

\* A complete live run in which the first user's suspension failed and the
\* next user was suspended all the same.
C10_Witness ==
    /\ CappedScript
    /\ RunComplete
    /\ LiveRun
    /\ Len(results) > 1
    /\ Present(results[1].error)
    /\ ~results[1].suspended
    /\ results[Len(results)].suspended

\* ------------------------------------------------------------------------
\* Properties of the exclusion rules (SpecOneUser)
\* ------------------------------------------------------------------------

\* Inactive, holding the target SKU, and matched by an exclusion rule.
ExcludedInactiveTarget(u) ==
    /\ NoLoginSinceCutoff(u)
    /\ HoldsTargetSku(u)
    /\ ExcludedByRule(u)

\* The user has no mutating call and no action-result record.
Untouched(u) ==
    /\ \A k \in 1..Len(calls) : ~SameAddress(calls[k].user, u.primaryEmail)
    /\ \A i \in 1..Len(results) : ~SameAddress(results[i].email, u.primaryEmail)

\* The rows of the all-inactive-users sheet for the user.
ReportRows(u) ==
    {j \in 1..Len(inactiveUsers) :
        SameAddress(inactiveUsers[j].primaryEmail, u.primaryEmail)}

\* Once the run is over the all-inactive-users list went to the Report Sink.
ReportedAll ==
    RunComplete => (Present(report) /\ report[1].allInactiveUsers = inactiveUsers)

\* C11 as stated: every inactive, target-licensed user matched by an
\* exclusion rule gets no mutating call and no result record, and stays in
\* the all-inactive-users report with excluded set and a reason attached.
C11_ExcludedAlwaysFlagged ==
    CappedScript =>
        \A i \in 1..Len(dirUsers) :
            ExcludedInactiveTarget(dirUsers[i]) =>
                /\ Untouched(dirUsers[i])
                /\ pc # "idle" =>
                      /\ ReportRows(dirUsers[i]) # {}
                      /\ \A j \in ReportRows(dirUsers[i]) :
                            /\ inactiveUsers[j].excluded
                            /\ Present(inactiveUsers[j].exclusionReason)
                      /\ ReportedAll

\* C11, amended: every inactive, target-licensed user matched by an exclusion
\* rule gets no mutating call and no result record and stays in the
\* all-inactive-users report; excluded and the reason are set when the user
\* is not already suspended, and for an already suspended user neither is
\* set.
C11_ExclusionEffect ==
    CappedScript =>
        \A i \in 1..Len(dirUsers) :
            ExcludedInactiveTarget(dirUsers[i]) =>
                /\ Untouched(dirUsers[i])
                /\ pc # "idle" =>
                      /\ ReportRows(dirUsers[i]) # {}
                      /\ \A j \in ReportRows(dirUsers[i]) :
                            /\ inactiveUsers[j].excluded = ~dirUsers[i].suspended
                            /\ Present(inactiveUsers[j].exclusionReason)
                                  = ~dirUsers[i].suspended
                      /\ ReportedAll

\* A complete live run of the manage script over a user below the legal-hold
\* unit who is no admin: reported as excluded for the unit, never touched.
C11_Witness ==
    /\ config.script = "manage"
    /\ LiveRun
    /\ RunComplete
    /\ Len(dirUsers) = 1
    /\ ExcludedInactiveTarget(dirUsers[1])
    /\ ~dirUsers[1].isAdmin /\ ~dirUsers[1].isDelegatedAdmin
    /\ dirUsers[1].orgUnitPath = Some(LegalHoldOU \o << "/Case 7" >>)
    /\ Len(inactiveUsers) = 1
    /\ inactiveUsers[1].excluded
    /\ inactiveUsers[1].exclusionReason = Some(<< "In excluded OU" >> \o LegalHoldOU)
    /\ calls = << >>
    /\ results = << >>
    /\ Present(report)

AdminRuleApplies(u) == EXCLUDE_ADMINS /\ (u.isAdmin \/ u.isDelegatedAdmin)

\* The excluded prefixes of the running script that the user's path starts
\* with, by position in the configured list.
MatchedPrefixes(u) ==
    {k \in 1..Len(EXCLUDED_OU_PATHS(config.script)) :
        LET prefix == EXCLUDED_OU_PATHS(config.script)[k]
            path == IF u.orgUnitPath = None THEN << "/" >> ELSE u.orgUnitPath[1]
        IN Len(path) >= Len(prefix) /\ \A c \in 1..Len(prefix) : path[c] = prefix[c]}

\* The reason of the first applicable rule: the admin rule, then the first
\* matching prefix.
FirstRuleReason(u) ==
    IF AdminRuleApplies(u) THEN << "Admin user" >>
    ELSE << "In excluded OU" >>
         \o EXCLUDED_OU_PATHS(config.script)[
               CHOOSE k \in MatchedPrefixes(u) : \A m \in MatchedPrefixes(u) : k <= m]

\* C12: for every user shouldExcludeUser excludes, getExclusionReason is the
\* reason of the first applicable rule (admin rule, then organisational
\* unit), so a user matching both is reported as "Admin user"; in the run
\* such a user has one row in the report, with that reason.
C12_ExclusionPrecedence ==
    CappedScript =>
        /\ verdict.excluded = Some(TRUE) =>
              verdict.reason = Some(FirstRuleReason(dirUsers[1]))
        /\ Present(verdict.excluded) =>
              verdict.excluded[1] = ExcludedByRule(dirUsers[1])
        /\ \A j \in 1..Len(inactiveUsers) :
              inactiveUsers[j].excluded =>
                  /\ Cardinality(ReportRows(inactiveUsers[j])) = 1
                  /\ inactiveUsers[j].exclusionReason
                        = Some(FirstRuleReason(inactiveUsers[j]))

\* A delegated admin in the legal-hold unit, in the manage script: both
\* rules apply and the reason given, by the function and in the report, is
\* the admin rule's.
C12_Witness ==
    /\ config.script = "manage"
    /\ RunComplete
    /\ Len(dirUsers) = 1
    /\ dirUsers[1].isDelegatedAdmin /\ ~dirUsers[1].isAdmin
    /\ MatchedPrefixes(dirUsers[1]) # {}
    /\ verdict.excluded = Some(TRUE)
    /\ verdict.reason = Some(<< "Admin user" >>)
    /\ Len(inactiveUsers) = 1
    /\ inactiveUsers[1].excluded
    /\ inactiveUsers[1].exclusionReason = Some(<< "Admin user" >>)

\* ------------------------------------------------------------------------
\* The login query window (getCutoffDate, getLoginActivityFromReports)
\* ------------------------------------------------------------------------

\* The clock counts ticks; a second has TicksPerSecond of them and a day
\* SecondsPerDay seconds (86400 in the platform).
TicksPerSecond == 2

SecondsPerDay == 2

DayTicks == SecondsPerDay * TicksPerSecond

\* 180 * 24 * 60 * 60 * 1000
ReportsHistoryTicks == 180 * DayTicks

\* The scripts with a getLoginActivityFromReports; "audit365" is the second
\* script of the eplus file (CONFIG of line 907).
WindowScripts == {"autorun", "eplus", "manage", "suspend180", "archive", "licensed",
                  "audit365"}

\* CONFIG.INACTIVITY_DAYS as shipped.
INACTIVITY_DAYS(script) == IF script = "audit365" THEN 365 ELSE 180

\* The thresholds an administrator may configure.
ThresholdChoices == {90, 180, 181, 365}

\* getCutoffDate(daysAgo): date.setDate(date.getDate() - daysAgo) on the
\* current time (daylight-saving shifts left aside).
getCutoffDate(now, daysAgo) == now - daysAgo * DayTicks

\* A mutant of the formatting: the fraction of the second is kept.
formatDateForReportsKeepsFraction(date) == date

\* Utilities.formatDate(date, 'GMT', "yyyy-MM-dd'T'HH:mm:ss'Z'"): the
\* timestamp read back from the string has lost the fraction of a second.
formatDateForReports(date) == date - (date % TicksPerSecond)

\* The startTime and endTime getLoginActivityFromReports hands to
\* AdminReports.Activities.list.
ReportsQuery(script, cutoffDate, now) ==
    IF script = "audit365"
    THEN [startTime |-> formatDateForReports(cutoffDate),
          endTime |-> formatDateForReports(now)]
    ELSE LET maxReportsHistory == now - ReportsHistoryTicks
             startDate == IF cutoffDate > maxReportsHistory THEN cutoffDate
                          ELSE maxReportsHistory
         IN [startTime |-> formatDateForReports(startDate),
             endTime |-> formatDateForReports(now)]

WindowInit ==
    /\ \E script \in WindowScripts :
       \E days \in ThresholdChoices \cup {INACTIVITY_DAYS(script)} :
       \E clock \in 0..(DayTicks - 1) :
          probe = [script |-> script, days |-> days, clock |-> clock]
    /\ verdict = [cutoff |-> None, query |-> None]
    /\ RunIdle
    /\ BatchIdle

\* The main function computes the cutoff.
WindowGetCutoffDate ==
    /\ verdict.cutoff = None
    /\ verdict' = [verdict EXCEPT !.cutoff = Some(getCutoffDate(probe.clock, probe.days))]
    /\ UNCHANGED << probe, runVars, batchVars >>

\* Time passes between the cutoff and the query (the license listing).
WindowClockTick ==
    /\ Present(verdict.cutoff)
    /\ verdict.query = None
    /\ probe.clock < DayTicks
    /\ probe' = [probe EXCEPT !.clock = @ + 1]
    /\ UNCHANGED << verdict, runVars, batchVars >>

\* getLoginActivityFromReports(cutoffDate) issues its query.
WindowQuery ==
    /\ Present(verdict.cutoff)
    /\ verdict.query = None
    /\ verdict' = [verdict EXCEPT
                      !.query = Some(ReportsQuery(probe.script, verdict.cutoff[1], probe.clock))]
    /\ UNCHANGED << probe, runVars, batchVars >>

WindowNext == WindowGetCutoffDate \/ WindowClockTick \/ WindowQuery

SpecWindow == WindowInit /\ [][WindowNext]_vars

\* C13: in every script that queries the login events, the start of the
\* query is never earlier than the retention horizon (the query's now minus
\* 180 days), also for a threshold above 180 days: the window sent is
\* [max(cutoff, now - 180 days), now] at the resolution of the request.
C13_QueryWindowClamp ==
    Present(verdict.query) =>
        LET q == verdict.query[1]
            horizon == formatDateForReports(probe.clock) - ReportsHistoryTicks
            cutoffDate == formatDateForReports(verdict.cutoff[1])
        IN /\ q.endTime = formatDateForReports(probe.clock)
           /\ q.startTime >= horizon
           /\ q.startTime = IF cutoffDate > horizon THEN cutoffDate ELSE horizon

\* The clamp in the scripts that have it: the same statement with the
\* second script of the eplus file left out.
C13_ClampedScripts ==
    (Present(verdict.query) /\ probe.script # "audit365") =>
        LET q == verdict.query[1]
            horizon == formatDateForReports(probe.clock) - ReportsHistoryTicks
            cutoffDate == formatDateForReports(verdict.cutoff[1])
        IN /\ q.endTime = formatDateForReports(probe.clock)
           /\ q.startTime >= horizon
           /\ q.startTime = IF cutoffDate > horizon THEN cutoffDate ELSE horizon

\* A query of a clamped script whose threshold of 365 days lies beyond the
\* retention horizon.
C13_ClampedWitness ==
    /\ Present(verdict.query)
    /\ probe.script = "eplus"
    /\ probe.days = 365
    /\ verdict.query[1].startTime > formatDateForReports(verdict.cutoff[1])

\* ------------------------------------------------------------------------
\* Groups audit, step by step: executions that overlap, are killed by the
\* platform, or are started by the trigger
\* ------------------------------------------------------------------------

\* The executions started in one behaviour number at most MaxRuns.
MaxRuns == 4

\* Property text that is neither a number nor JSON.
Garbled == << "{", "]" >>

\* NaN.toString()
NaNText == << "N", "a", "N" >>

\* parseInt(scriptProps.getProperty('processedIndex') || '0'): a missing
\* property reads as 0, a number as itself, any other text as NaN.
ParseIndex(stored) ==
    IF stored = None THEN [nan |-> FALSE, value |-> 0]
    ELSE IF Len(stored) # 1 THEN [nan |-> TRUE, value |-> 0]
    ELSE [nan |-> FALSE, value |-> stored[1]]

\* processedIndex.toString()
IndexText(index) == IF index.nan THEN NaNText ELSE Some(index.value)

\* JSON.parse(scriptProps.getProperty('auditResults') || '[]'): a missing
\* property reads as the empty list; text that is not JSON makes it throw.
ParseResults(stored) ==
    IF stored = None THEN [threw |-> FALSE, value |-> << >>]
    ELSE IF Len(stored) # 1 THEN [threw |-> TRUE, value |-> << >>]
    ELSE [threw |-> FALSE, value |-> stored[1]]

\* The answers of checkGroupHasRole the step-by-step executions meet: the
\* groups with an odd number have no owner, every group has a manager.
RoleAnswers(batchGroups) ==
    [i \in 1..Len(batchGroups) |->
        [hasOwner |-> batchGroups[i] % 2 = 0, hasManager |-> TRUE]]

\* allGroups.slice(batchStart, batchEnd); NaN bounds make the slice empty.
BatchGroupsOf(allGroups, index) ==
    IF index.nan THEN << >>
    ELSE Slice(allGroups, index.value, Min(index.value + BATCH_SIZE, Len(allGroups)))

\* A mutant of the completion test: the index must pass the list's end.
AuditCompleteStrict(index, totalGroups) == ~index.nan /\ index.value > totalGroups

\* if (processedIndex >= totalGroups); false for NaN.
AuditComplete(index, totalGroups) == ~index.nan /\ index.value >= totalGroups

\* The locals of an execution that has fetched the list of groups.
NewLocals(by, allGroups) ==
    [pc |-> "readIndex", by |-> by, afterCompletion |-> "reportSinceTrigger" \in happened,
     allGroups |-> allGroups, readIndex |-> None, readResults |-> None,
     index |-> [nan |-> FALSE, value |-> 0], allResults |-> << >>,
     batchStart |-> 0, batchGroups |-> << >>, currentIndex |-> 0,
     batchResults |-> << >>, timedOut |-> FALSE]

Others(p) == Procs \ {p}

\* An execution starts: getAllGroups (lines 54-63).
StartExecution(p, by) ==
    /\ invocations[p].pc = "idle"
    /\ runs < MaxRuns
    /\ \E pagesOk \in ListingOutcomes :
          \E allGroups \in {getAllGroups(pagesOk)} :
             /\ groupsCache' = Some(allGroups)
             /\ invocations' = [invocations EXCEPT ![p] = NewLocals(by, allGroups)]
    /\ runs' = runs + 1
    /\ happened' = happened \cup
                     (IF \E q \in Others(p) : invocations[q].pc # "idle"
                      THEN {"overlap"} ELSE {})
    /\ UNCHANGED << dirGroups, processedIndex, auditResults, lastRun, triggers,
                    finalReports, classifyVars, runVars >>

\* Somebody runs auditGroupsWithoutOwners from the editor.
RunAudit(p) == StartExecution(p, "manual")

\* The time-based trigger fires.
TriggerFires(p) ==
    /\ \E k \in 1..Len(triggers) : triggers[k] = "auditGroupsWithoutOwners"
    /\ StartExecution(p, "trigger")

\* Line 66.
ReadIndex(p) ==
    /\ invocations[p].pc = "readIndex"
    /\ invocations' = [invocations EXCEPT
                          ![p].pc = "readResults",
                          ![p].readIndex = processedIndex,
                          ![p].index = ParseIndex(processedIndex)]
    /\ UNCHANGED << dirGroups, groupsCache, processedIndex, auditResults, lastRun, triggers,
                    finalReports, happened, runs, classifyVars, runVars >>

\* Line 67; an exception ends the execution.
ReadResults(p) ==
    /\ invocations[p].pc = "readResults"
    /\ \E parsed \in {ParseResults(auditResults)} :
          IF parsed.threw
          THEN /\ invocations' = [invocations EXCEPT ![p] = IdleLocals]
               /\ happened' = happened \cup {"exception"}
          ELSE /\ invocations' = [invocations EXCEPT
                                     ![p].pc = "loop",
                                     ![p].readResults = auditResults,
                                     ![p].allResults = parsed.value]
               /\ UNCHANGED happened
    /\ UNCHANGED << dirGroups, groupsCache, processedIndex, auditResults, lastRun, triggers,
                    finalReports, runs, classifyVars, runVars >>

\* The locals after the batch loop and lines 129-130.
AfterBatch(locals, over, chk) ==
    LET batchGroups == BatchGroupsOf(locals.allGroups, locals.index)
        loop == BatchLoop(batchGroups, over, chk, 1, 0, << >>)
    IN [locals EXCEPT
           !.pc = "saveIndex",
           !.batchStart = locals.index.value,
           !.batchGroups = batchGroups,
           !.currentIndex = loop.currentIndex,
           !.batchResults = loop.batchResults,
           !.timedOut = loop.timedOut,
           !.allResults = CombineResults(locals.allResults, loop.batchResults),
           !.index = [locals.index EXCEPT
                         !.value = NewIndex(locals.index.value, loop.currentIndex)]]

\* A mutant of the batch: the start of the batch is read from the property
\* again when the loop begins.
ProcessBatchRereads(p) ==
    /\ invocations[p].pc = "loop"
    /\ \E fresh \in {[invocations[p] EXCEPT !.index = ParseIndex(processedIndex)]} :
       \E over \in 1..(Len(BatchGroupsOf(fresh.allGroups, fresh.index)) + 1) :
       \E chk \in {RoleAnswers(BatchGroupsOf(fresh.allGroups, fresh.index))} :
       \E after \in {AfterBatch(fresh, over, chk)} :
          /\ invocations' = [invocations EXCEPT ![p] = after]
          /\ happened' = happened \cup (IF after.timedOut THEN {"timeout"} ELSE {})
    /\ UNCHANGED << dirGroups, groupsCache, processedIndex, auditResults, lastRun, triggers,
                    finalReports, runs, classifyVars, runVars >>

\* A mutant of the batch: the index is saved while the loop runs.
ProcessBatchSavesEarly(p) ==
    /\ invocations[p].pc = "loop"
    /\ \E over \in 1..(Len(BatchGroupsOf(invocations[p].allGroups, invocations[p].index)) + 1) :
       \E chk \in {RoleAnswers(BatchGroupsOf(invocations[p].allGroups, invocations[p].index))} :
       \E after \in {AfterBatch(invocations[p], over, chk)} :
          /\ invocations' = [invocations EXCEPT ![p] = after]
          /\ processedIndex' = IndexText(after.index)
          /\ happened' = happened \cup (IF after.timedOut THEN {"timeout"} ELSE {})
    /\ UNCHANGED << dirGroups, groupsCache, auditResults, lastRun, triggers,
                    finalReports, runs, classifyVars, runVars >>

\* Lines 71-130: the batch range, the loop over the batch, the combination
\* of the results and the new index, all on locals.
ProcessBatch(p) ==
    /\ invocations[p].pc = "loop"
    /\ \E over \in 1..(Len(BatchGroupsOf(invocations[p].allGroups, invocations[p].index)) + 1) :
       \E chk \in {RoleAnswers(BatchGroupsOf(invocations[p].allGroups, invocations[p].index))} :
       \E after \in {AfterBatch(invocations[p], over, chk)} :
          /\ invocations' = [invocations EXCEPT ![p] = after]
          /\ happened' = happened \cup (IF after.timedOut THEN {"timeout"} ELSE {})
    /\ UNCHANGED << dirGroups, groupsCache, processedIndex, auditResults, lastRun, triggers,
                    finalReports, runs, classifyVars, runVars >>

\* Line 133.
SaveIndex(p) ==
    /\ invocations[p].pc = "saveIndex"
    /\ processedIndex' = IndexText(invocations[p].index)
    /\ invocations' = [invocations EXCEPT ![p].pc = "saveResults"]
    /\ UNCHANGED << dirGroups, groupsCache, auditResults, lastRun, triggers,
                    finalReports, happened, runs, classifyVars, runVars >>

\* Line 134.
SaveResults(p) ==
    /\ invocations[p].pc = "saveResults"
    /\ auditResults' = Some(invocations[p].allResults)
    /\ invocations' = [invocations EXCEPT ![p].pc = "complete?"]
    /\ UNCHANGED << dirGroups, groupsCache, processedIndex, lastRun, triggers,
                    finalReports, happened, runs, classifyVars, runVars >>

\* Lines 144-160: the final report when the index has reached the end of
\* the list, else the execution returns.
CompletionCheck(p) ==
    /\ invocations[p].pc = "complete?"
    /\ IF AuditComplete(invocations[p].index, Len(invocations[p].allGroups))
       THEN /\ finalReports' = Append(finalReports,
                                  [groups |-> invocations[p].allResults,
                                   totalGroupsScanned |-> Len(invocations[p].allGroups)])
            /\ invocations' = [invocations EXCEPT ![p].pc = "deleteIndex"]
            /\ happened' = happened \cup
                             (IF triggers # << >> THEN {"reportSinceTrigger"} ELSE {})
                             \cup
                             (IF \E q \in Others(p) :
                                    invocations[q].pc \in {"loop", "saveIndex", "saveResults"}
                              THEN {"reportWhileOtherInFlight"} ELSE {})
       ELSE /\ invocations' = [invocations EXCEPT ![p] = IdleLocals]
            /\ UNCHANGED << finalReports, happened >>
    /\ UNCHANGED << dirGroups, groupsCache, processedIndex, auditResults, lastRun, triggers,
                    runs, classifyVars, runVars >>

\* Line 149.
DeleteIndex(p) ==
    /\ invocations[p].pc = "deleteIndex"
    /\ processedIndex' = None
    /\ invocations' = [invocations EXCEPT ![p].pc = "deleteResults"]
    /\ UNCHANGED << dirGroups, groupsCache, auditResults, lastRun, triggers,
                    finalReports, happened, runs, classifyVars, runVars >>

\* Line 150, and the execution returns.
DeleteResults(p) ==
    /\ invocations[p].pc = "deleteResults"
    /\ auditResults' = None
    /\ invocations' = [invocations EXCEPT ![p] = IdleLocals]
    /\ UNCHANGED << dirGroups, groupsCache, processedIndex, lastRun, triggers,
                    finalReports, happened, runs, classifyVars, runVars >>

\* The positions of an execution that has not yet saved anything.
BeforeSave == {"readIndex", "readResults", "loop", "saveIndex"}

\* The platform stops an execution (time limit, crash): its locals are lost.
Kill(p) ==
    /\ invocations[p].pc # "idle"
    /\ invocations' = [invocations EXCEPT ![p] = IdleLocals]
    /\ happened' = happened \cup
                     {IF invocations[p].pc \in BeforeSave THEN "killedBeforeSave"
                      ELSE "killedLater"}
    /\ UNCHANGED << dirGroups, groupsCache, processedIndex, auditResults, lastRun, triggers,
                    finalReports, runs, classifyVars, runVars >>

OtherTriggers == SelectSeq(triggers, LAMBDA h : h # "auditGroupsWithoutOwners")

\* createAutoBatchTrigger: the handler's triggers are deleted, a new one is
\* created.
CreateAutoBatchTrigger ==
    /\ triggers' = Append(OtherTriggers, "auditGroupsWithoutOwners")
    /\ happened' = happened \ {"reportSinceTrigger"}
    /\ UNCHANGED << dirGroups, groupsCache, processedIndex, auditResults, lastRun,
                    invocations, finalReports, runs, classifyVars, runVars >>

\* deleteAutoBatchTrigger
DeleteAutoBatchTrigger ==
    /\ triggers' = OtherTriggers
    /\ happened' = happened \ {"reportSinceTrigger"}
    /\ UNCHANGED << dirGroups, groupsCache, processedIndex, auditResults, lastRun,
                    invocations, finalReports, runs, classifyVars, runVars >>

StepInit ==
    /\ dirGroups \in {[i \in 1..n |-> i] : n \in 1..MaxGroups}
    /\ groupsCache = None
    /\ processedIndex = None
    /\ auditResults = None
    /\ lastRun = NoRun
    /\ StepIdle
    /\ ClassifyIdle
    /\ RunIdle

\* The steps of the execution in slot p, from its start to its return.
ExecutionStep(p) ==
    \/ RunAudit(p)
    \/ ReadIndex(p)
    \/ ReadResults(p)
    \/ ProcessBatch(p)
    \/ SaveIndex(p)
    \/ SaveResults(p)
    \/ CompletionCheck(p)
    \/ DeleteIndex(p)
    \/ DeleteResults(p)

\* Executions one after the other, any of which the platform may stop.
CycleNext == ExecutionStep(1) \/ Kill(1)

SpecCycle == StepInit /\ [][CycleNext]_vars

\* Executions one after the other, started from the editor or by the
\* trigger.
TriggerNext ==
    \/ CreateAutoBatchTrigger
    \/ DeleteAutoBatchTrigger
    \/ TriggerFires(1)
    \/ ExecutionStep(1)

SpecTrigger == StepInit /\ [][TriggerNext]_vars

\* The executions of a behaviour with overlaps number at most OverlapRuns.
OverlapRuns == 2

\* Executions started from the editor that may overlap.
OverlapNext == \E p \in Procs : ExecutionStep(p) /\ runs' <= OverlapRuns

SpecOverlap == StepInit /\ [][OverlapNext]_vars

\* An audit met with whatever the two progress properties hold: missing,
\* well-formed, or text that does not parse.
CorruptInit ==
    /\ dirGroups \in {[i \in 1..n |-> i] : n \in 1..MaxGroups}
    /\ groupsCache \in {None, Some(dirGroups)}
    /\ processedIndex \in {None, Garbled} \cup {Some(k) : k \in 0..Len(dirGroups)}
    /\ auditResults \in {None, Garbled, Some(<< >>)}
    /\ lastRun = NoRun
    /\ StepIdle
    /\ ClassifyIdle
    /\ RunIdle

SpecCorrupt == CorruptInit /\ [][CycleNext]_vars

\* ------------------------------------------------------------------------
\* Properties of the step-by-step audit
\* ------------------------------------------------------------------------

\* The property is missing or holds text that does not parse.
Unusable(stored) == stored = None \/ Len(stored) # 1

HasRead(p) == invocations[p].pc \notin {"idle", "readIndex"}

HasLooped(p) == invocations[p].pc \notin {"idle", "readIndex", "readResults", "loop"}

\* C14: when the persisted processedIndex or auditResults is missing or
\* corrupt, an execution raises no error, takes index 0 and empty results,
\* and goes on to process the first batch.
C14_CheckpointFallback ==
    /\ "exception" \notin happened
    /\ \A p \in Procs :
          /\ (invocations[p].pc = "readResults" /\ Unusable(invocations[p].readIndex))
             => invocations[p].index = [nan |-> FALSE, value |-> 0]
          /\ (invocations[p].pc = "loop" /\ Unusable(invocations[p].readResults))
             => invocations[p].allResults = << >>
          /\ (HasLooped(p) /\ Unusable(invocations[p].readIndex))
             => /\ invocations[p].batchStart = 0
                /\ invocations[p].batchGroups =
                      Slice(invocations[p].allGroups, 0, BATCH_SIZE)

\* The fallback that the code has: the same statement for properties that
\* are missing.
C14_MissingFallback ==
    \A p \in Procs :
        /\ (invocations[p].pc = "readResults" /\ invocations[p].readIndex = None)
           => invocations[p].index = [nan |-> FALSE, value |-> 0]
        /\ (invocations[p].pc = "loop" /\ invocations[p].readResults = None)
           => invocations[p].allResults = << >>
        /\ (HasLooped(p) /\ invocations[p].readIndex = None)
           => /\ invocations[p].batchStart = 0
              /\ invocations[p].batchGroups =
                    Slice(invocations[p].allGroups, 0, BATCH_SIZE)

\* With a processedIndex that does not parse no execution ever produces the
\* final report: the index stays NaN.
C14_GarbledIndexNeverCompletes ==
    (Present(processedIndex) /\ Len(processedIndex) # 1) => finalReports = << >>

\* The groups recorded in a list of results, in order.
GroupsIn(list) == [i \in 1..Len(list) |-> list[i].groupEmail]

NoGroupTwice(list) ==
    \A i, j \in 1..Len(list) : list[i].groupEmail = list[j].groupEmail => i = j

NotYetSaving(p) == invocations[p].pc \in BeforeSave \cup {"idle"}

\* A step of the execution in slot p that is not its save step: it starts,
\* reads, loops, or is stopped before it has saved anything.
StepBeforeSave(p) ==
    /\ invocations'[p] # invocations[p]
    /\ NotYetSaving(p)
    /\ invocations'[p].pc \in BeforeSave \cup {"idle"}

\* C15: an execution stopped at any point before its save step leaves the
\* persisted processedIndex and auditResults exactly as they were when it
\* began (no step before the save step writes them, and until then they are
\* what the execution read), so that the next execution re-checks the same
\* groups; after executions stopped only before their save step no group is
\* recorded twice.
C15_CrashSafetyBeforeSave ==
    /\ [][\A p \in Procs :
             StepBeforeSave(p) =>
                 /\ processedIndex' = processedIndex
                 /\ auditResults' = auditResults]_vars
    /\ [](\A p \in Procs :
             invocations[p].pc \in {"loop", "saveIndex"} =>
                 /\ processedIndex = invocations[p].readIndex
                 /\ auditResults = invocations[p].readResults)
    /\ []((happened \subseteq {"killedBeforeSave", "timeout"}) =>
             /\ Present(auditResults) => NoGroupTwice(auditResults[1])
             /\ \A k \in 1..Len(finalReports) : NoGroupTwice(finalReports[k].groups))

\* An execution was stopped before its save step and the next one has
\* checked the first groups again, the checkpoint still missing.
C15_Witness ==
    /\ "killedBeforeSave" \in happened
    /\ runs > 1
    /\ invocations[1].pc = "saveIndex"
    /\ invocations[1].batchStart = 0
    /\ invocations[1].currentIndex > 0
    /\ invocations[1].batchResults # << >>
    /\ processedIndex = None
    /\ auditResults = None

\* The number of groups the cycle works on: the cached list.
CycleGroups == IF Present(groupsCache) THEN Len(groupsCache[1]) ELSE 0

\* ceil(N / B)
RunsPerCycle == (CycleGroups + BATCH_SIZE - 1) \div BATCH_SIZE

\* C16: from an empty checkpoint, with N > 0 groups, batch size B, no
\* time-boxing and executions one after the other that all return, the final
\* report is emitted by the ceil(N/B)-th execution of a cycle and by no
\* earlier one, once per cycle; after the k-th execution of a cycle
\* (k < ceil(N/B)) the persisted index is k * B, and the last execution
\* reaches N and clears the checkpoint.
C16_RunsToCompletion ==
    (happened = {} /\ runs > 0 /\ CycleGroups > 0) =>
        \A cycle \in {RunsPerCycle} :
            /\ invocations[1].pc = "idle" =>
                  /\ Len(finalReports) = runs \div cycle
                  /\ processedIndex = IF runs % cycle = 0 THEN None
                                      ELSE Some((runs % cycle) * BATCH_SIZE)
            /\ invocations[1].pc \in {"deleteIndex", "deleteResults"} =>
                  /\ runs % cycle = 0
                  /\ Len(finalReports) = runs \div cycle
                  /\ invocations[1].index.value = CycleGroups
            /\ invocations[1].pc \notin {"idle", "deleteIndex", "deleteResults"} =>
                  Len(finalReports) = (runs - 1) \div cycle
            /\ \A k \in 1..Len(finalReports) :
                  finalReports[k].totalGroupsScanned = CycleGroups

\* A cycle of more than one execution whose last batch is not a full one
\* (as 1250 groups in batches of 500): the first execution has saved index
\* B, the last one has emitted the only report.
C16_Witness ==
    /\ happened = {}
    /\ CycleGroups > BATCH_SIZE
    /\ CycleGroups % BATCH_SIZE # 0
    /\ runs = RunsPerCycle
    /\ invocations[1].pc = "idle"
    /\ Len(finalReports) = 1
    /\ finalReports[1].totalGroupsScanned = CycleGroups
    /\ processedIndex = None

\* C17: with the trigger installed by createAutoBatchTrigger, once a cycle
\* has completed and its final report has been generated, no later firing
\* of the trigger checks a group again or emits another report, although
\* deleteAutoBatchTrigger was not called.
C17_AutomaticStop ==
    \A p \in Procs :
        (/\ invocations[p].pc # "idle"
         /\ invocations[p].by = "trigger"
         /\ invocations[p].afterCompletion)
        => /\ invocations[p].currentIndex = 0
           /\ invocations[p].pc \notin {"deleteIndex", "deleteResults"}

\* The trigger is still installed after the report: nothing deletes it but
\* createAutoBatchTrigger and deleteAutoBatchTrigger.
C17_TriggerOutlivesReport ==
    "reportSinceTrigger" \in happened => triggers = << "auditGroupsWithoutOwners" >>

\* Two executions under way that read the same processedIndex.
ReadSameIndex(p, q) ==
    /\ p # q
    /\ HasRead(p)
    /\ HasRead(q)
    /\ invocations[p].readIndex = invocations[q].readIndex

IndexKinds ==
    {k \in ProbeKinds :
        /\ k.dir = Some(RunCutoff - 1) /\ k.ev = None
        /\ ~k.suspended /\ ~k.isAdmin /\ ~k.isDelegatedAdmin /\ k.ou = None}

\* The pages of the listing: one request at least.
LicensePages(items) ==
    IF Len(items) = 0 THEN 1
    ELSE (Len(items) + LICENSE_PAGE_SIZE - 1) \div LICENSE_PAGE_SIZE

LicenseIndexInit ==
    /\ config \in CappedConfigs
    /\ \E n \in 1..MaxUsers :
          \E population \in [1..n -> IndexKinds] :
             /\ dirUsers = [i \in 1..n |-> DirectoryUser(i, population[i])]
             /\ reportsEvents = ProviderEvents(population, 1)
             /\ licenseItems = ProviderLicenses(population, 1)
    /\ licenseFailAt \in 0..LicensePages(licenseItems)
    /\ reportsFailAt = 0
    /\ pc = "idle"
    /\ inactiveUsers = << >>
    /\ usersToProcess = << >>
    /\ loopIndex = 0
    /\ results = << >>
    /\ calls = << >>
    /\ report = None
    /\ probe = [email |-> "ann@corp", ev |-> None, dir |-> None, cutoff |-> 0]
    /\ verdict = [index |-> None]
    /\ BatchIdle

\* getAllLicenseAssignments on its own: the map it returns and the pages
\* it requested.
IndexLicenses ==
    /\ verdict.index = None
    /\ verdict' = [index |-> Some(ListLicensePages(1, EmptyMap, << >>))]
    /\ UNCHANGED << probe, runVars, batchVars >>

LicenseIndexNext ==
    \/ IndexLicenses
    \/ EplusStart \/ EplusStep
    \/ ManageStart \/ ManageStep

SpecLicenseIndex == LicenseIndexInit /\ [][LicenseIndexNext]_vars

\* The first page that is not fetched.
FirstPageNotFetched ==
    IF licenseFailAt = 0 THEN LicensePages(licenseItems) + 1 ELSE licenseFailAt

\* The assignments of one address on the pages before the failing one, in
\* listing order, as (SKU, name) pairs.
FetchedFor(address) ==
    LET numbered == [i \in 1..Len(licenseItems) |->
                        [item |-> licenseItems[i],
                         page |-> ((i - 1) \div LICENSE_PAGE_SIZE) + 1]]
        kept == SelectSeq(numbered,
                          LAMBDA e : /\ e.page < FirstPageNotFetched
                                     /\ ToLower(e.item.userId) = address)
    IN [j \in 1..Len(kept) |->
           [skuId |-> kept[j].item.skuId, skuName |-> getSkuName(kept[j].item.skuId)]]

LowerAddresses == {ToLower(RunEmails[i]) : i \in 1..Len(RunEmails)}

getInactiveUsersSuspend(listed, reportsLoginData, cutoffDate) ==
    FilterUsersSuspend(listed, reportsLoginData, cutoffDate)

\* The filter callback of getInactiveUsers in the archive script.
FilterInactiveArchive(user, reportsLoginData, cutoffDate) ==
    LET entry == Lookup(reportsLoginData, ToLower(user.primaryEmail)) IN
    IF Present(entry) THEN ~(entry[1] >= cutoffDate)
    ELSE IF Present(user.lastLoginTime) THEN ~(user.lastLoginTime[1] >= cutoffDate)
    ELSE TRUE

\* getInactiveUsers of the archive script on a page of listed users.
RECURSIVE getInactiveUsersArchive(_, _, _)
getInactiveUsersArchive(listed, reportsLoginData, cutoffDate) ==
    IF listed = << >> THEN << >>
    ELSE LET u == Head(listed)
             rest == getInactiveUsersArchive(Tail(listed), reportsLoginData, cutoffDate)
         IN IF FilterInactiveArchive(u, reportsLoginData, cutoffDate)
            THEN << StoreLastLogin(u, reportsLoginData) >> \o rest
            ELSE rest

VariantsInit ==
    /\ probe \in [email : ProbeEmails, ev : OptTimes, dir : OptTimes, cutoff : Times]
    /\ verdict = [auto |-> None, suspend |-> None, archive |-> None]
    /\ BatchIdle
    /\ RunIdle

\* getInactiveUsers of the suspend script on a directory page holding the
\* probe user.
ClassifySuspend ==
    /\ verdict.suspend = None
    /\ verdict' = [verdict EXCEPT !.suspend =
          Some(getInactiveUsersSuspend(<< ProbeUser(probe) >>, ProbeLoginMap(probe),
                                       probe.cutoff))]
    /\ UNCHANGED << probe, batchVars, runVars >>

\* getInactiveUsers of the archive script on a directory page holding the
\* probe user.
ClassifyArchive ==
    /\ verdict.archive = None
    /\ verdict' = [verdict EXCEPT !.archive =
          Some(getInactiveUsersArchive(<< ProbeUser(probe) >>, ProbeLoginMap(probe),
                                       probe.cutoff))]
    /\ UNCHANGED << probe, batchVars, runVars >>

VariantsNext == ClassifyAutoRun \/ ClassifySuspend \/ ClassifyArchive

SpecVariants == VariantsInit /\ [][VariantsNext]_vars

\* The helper kept the probe user: INACTIVE.
Inactive(returned) == Len(returned) = 1

\* C20: the getInactiveUsers helpers of the suspend and archive scripts
\* return the same ACTIVE/INACTIVE verdict as getInactiveUsers of the Auto
\* Run script for every event-source timestamp, directory lastLoginTime and
\* cutoff.
C20_VariantEquivalence ==
    /\ (Present(verdict.auto) /\ Present(verdict.suspend)) =>
          (Inactive(verdict.suspend[1]) <=> Inactive(verdict.auto[1]))
    /\ (Present(verdict.auto) /\ Present(verdict.archive)) =>
          (Inactive(verdict.archive[1]) <=> Inactive(verdict.auto[1]))

\* Where the helpers do agree: whenever the event source has no entry for
\* the user older than the cutoff while the directory shows a login at or
\* after it.
C20_AgreeOtherwise ==
    ~(/\ Present(probe.ev) /\ probe.ev[1] < probe.cutoff
      /\ Present(probe.dir) /\ probe.dir[1] >= probe.cutoff)
    => C20_VariantEquivalence

\* ------------------------------------------------------------------------
\* Properties of the cap across the mutating scripts
\* ------------------------------------------------------------------------

\* The users named in the provider calls issued so far in the run.
UsersWithCalls == {calls[k].user : k \in 1..Len(calls)}

\* C21: in every script that issues mutating calls, the suspend180 script
\* included, the number of users for whom calls are issued in one run never
\* exceeds the cap MAX_SUSPEND_COUNT.
C21_CapInEveryVariant == Cardinality(UsersWithCalls) <= MAX_SUSPEND_COUNT

\* The cap does bound the calls of the two scripts that apply it.
C21_CapWhereApplied == CappedScript => C21_CapInEveryVariant

\* ------------------------------------------------------------------------
\* The login activity resolver on its own
\* ------------------------------------------------------------------------

\* The largest number of login events the audit provider holds.
MaxEvents == 3

\* activity.actor.email of an event: missing for system events.
EventActors == {None, Some("ann@corp"), Some("Bob@corp"), Some("bob@corp")}

\* The event lists the audit provider can hold, in any order.
EventLists ==
    UNION {[1..n -> [email : EventActors, time : Times]] : n \in 0..MaxEvents}

\* The requests the listing of a window makes when none fails.
ActivityPages(listed) ==
    IF Len(listed) = 0 THEN 1
    ELSE (Len(listed) + REPORTS_PAGE_SIZE - 1) \div REPORTS_PAGE_SIZE

LoginMapInit ==
    /\ reportsEvents \in EventLists
    /\ reportsFailAt \in 0..ActivityPages(ActivitiesList(RunCutoff))
    /\ config = [script |-> "autorun"]
    /\ dirUsers = << >>
    /\ licenseItems = << >>
    /\ licenseFailAt = 0
    /\ pc = "idle"
    /\ inactiveUsers = << >>
    /\ usersToProcess = << >>
    /\ loopIndex = 0
    /\ results = << >>
    /\ calls = << >>
    /\ report = None
    /\ probe = [email |-> "ann@corp", ev |-> None, dir |-> None, cutoff |-> 0]
    /\ verdict = [loginMap |-> None]
    /\ BatchIdle

\* getLoginActivityFromReports(cutoffDate) of a run.
ResolveLogins ==
    /\ verdict.loginMap = None
    /\ verdict' = [loginMap |-> Some(getLoginActivityFromReports(RunCutoff))]
    /\ UNCHANGED << probe, runVars, batchVars >>

LoginMapNext == ResolveLogins

SpecLoginMap == LoginMapInit /\ [][LoginMapNext]_vars

\* The events of the queried window on the pages whose request succeeded, in
\* listing order.
FetchedEvents ==
    LET listed == ActivitiesList(RunCutoff)
        upTo == IF reportsFailAt = 0 THEN Len(listed)
                ELSE Min((reportsFailAt - 1) * REPORTS_PAGE_SIZE, Len(listed))
    IN SubSeq(listed, 1, upTo)

\* The times of the fetched events of one lower-cased address.
FetchedTimes(address) ==
    {FetchedEvents[k].time : k \in
        {j \in 1..Len(FetchedEvents) :
            /\ Present(FetchedEvents[j].email)
            /\ ToLower(FetchedEvents[j].email[1]) = address}}

Latest(times) == CHOOSE t \in times : \A other \in times : other <= t

EventAddresses ==
    {ToLower(a[1]) : a \in {actor \in EventActors : Present(actor)}}

\* C22: the login map holds, for every address with at least one fetched
\* event that has an actor email, the maximum of the times of its fetched
\* events, whatever the order of the events within and across pages; nothing
\* else is in the map, so events without an actor email add no entry.
C22_LoginResolver ==
    Present(verdict.loginMap) =>
        /\ DOMAIN verdict.loginMap[1] =
              {a \in EventAddresses : FetchedTimes(a) # {}}
        /\ \A a \in DOMAIN verdict.loginMap[1] :
              verdict.loginMap[1][a] = Latest(FetchedTimes(a))

\* The later event of an address is listed on the first page and an earlier
\* one on the second, next to an event without actor email: the map holds
\* the later time for the address and nothing for the third event.
C22_Witness ==
    /\ Present(verdict.loginMap)
    /\ reportsFailAt = 0
    /\ Len(FetchedEvents) > REPORTS_PAGE_SIZE
    /\ \E k \in 1..REPORTS_PAGE_SIZE :
       \E m \in (REPORTS_PAGE_SIZE + 1)..Len(FetchedEvents) :
          /\ Present(FetchedEvents[k].email)
          /\ Present(FetchedEvents[m].email)
          /\ ToLower(FetchedEvents[k].email[1]) = ToLower(FetchedEvents[m].email[1])
          /\ FetchedEvents[k].time > FetchedEvents[m].time
          /\ verdict.loginMap[1][ToLower(FetchedEvents[k].email[1])] = FetchedEvents[k].time
    /\ \E j \in 1..Len(FetchedEvents) : ~Present(FetchedEvents[j].email)
    /\ Cardinality(DOMAIN verdict.loginMap[1]) = 1

\* ------------------------------------------------------------------------
\* The last-login column of the audit report
\* ------------------------------------------------------------------------

\* The text 'Never' of the report, as characters.
Never == << "N", "e", "v", "e", "r" >>

\* The rows exportToSheet writes, reduced to the address and the last-login
\* cell: user.lastLoginTime || 'Never'.
exportToSheet(users) ==
    [i \in 1..Len(users) |->
        [primaryEmail |-> users[i].primaryEmail,
         lastLogin |-> IF Present(users[i].lastLoginTime)
                       THEN users[i].lastLoginTime ELSE Never]]

AuditReportInit ==
    /\ probe \in [email : ProbeEmails, ev : OptTimes, dir : OptTimes, cutoff : Times]
    /\ verdict = [inactiveUsers |-> None, rows |-> None]
    /\ BatchIdle
    /\ RunIdle

\* Step 2 of auditInactiveEnterpriseUsers: getInactiveUsers on a directory
\* page holding the probe user.
AuditGetInactiveUsers ==
    /\ verdict.inactiveUsers = None
    /\ verdict' = [verdict EXCEPT !.inactiveUsers =
          Some(getInactiveUsers(<< ProbeUser(probe) >>, ProbeLoginMap(probe), probe.cutoff))]
    /\ UNCHANGED << probe, batchVars, runVars >>

\* Step 4 of auditInactiveEnterpriseUsers: the report of the inactive users;
\* with none the function has returned before.
AuditExportToSheet ==
    /\ Present(verdict.inactiveUsers)
    /\ Len(verdict.inactiveUsers[1]) > 0
    /\ verdict.rows = None
    /\ verdict' = [verdict EXCEPT !.rows = Some(exportToSheet(verdict.inactiveUsers[1]))]
    /\ UNCHANGED << probe, batchVars, runVars >>

AuditReportNext == AuditGetInactiveUsers \/ AuditExportToSheet

SpecAuditReport == AuditReportInit /\ [][AuditReportNext]_vars

\* The later of the two sources' timestamps, the one present, or 'Never'.
EffectiveLastLogin(p) ==
    CASE Present(p.ev) /\ Present(p.dir) ->
            (IF p.ev[1] >= p.dir[1] THEN p.ev ELSE p.dir)
      [] Present(p.ev) -> p.ev
      [] Present(p.dir) -> p.dir
      [] OTHER -> Never

\* C23: for every user reported as inactive the last-login cell of the
\* report is the later of the event-source timestamp and the directory
\* lastLoginTime when both are present, the one present when only one is,
\* and 'Never' when both are absent.
C23_EffectiveLastLogin ==
    Present(verdict.rows) =>
        \A i \in 1..Len(verdict.rows[1]) :
            verdict.rows[1][i].lastLogin = EffectiveLastLogin(probe)

\* What the report holds: the event-source timestamp whenever the login map
\* has an entry for the user, else the directory value, else 'Never'.
C23_EventSourceWins ==
    Present(verdict.rows) =>
        /\ Len(verdict.rows[1]) = 1
        /\ verdict.rows[1][1].lastLogin =
              (IF Present(probe.ev) THEN probe.ev
               ELSE IF Present(probe.dir) THEN probe.dir ELSE Never)

\* The cell is the later value whenever the directory value is not the
\* later of two.
C23_LaterUnlessDirectoryLater ==
    (Present(verdict.rows)
       /\ ~(Present(probe.ev) /\ Present(probe.dir) /\ probe.dir[1] > probe.ev[1]))
    => C23_EffectiveLastLogin

\* ------------------------------------------------------------------------
\* Properties of a cycle of executions: coverage and the checkpoint pair
\* ------------------------------------------------------------------------

\* The records of the groups of a list that lack an owner or a manager, each
\* once, in the order of the list.
FlaggedGroupsOf(groups) ==
    LET chk == RoleAnswers(groups)
        lacking == SelectSeq([i \in 1..Len(groups) |-> i],
                             LAMBDA i : ~chk[i].hasOwner \/ ~chk[i].hasManager)
    IN [j \in 1..Len(lacking) |-> FlaggedRecord(groups[lacking[j]], chk[lacking[j]])]

\* The first n groups of the cached list.
FirstGroups(n) == SubSeq(groupsCache[1], 1, n)

\* The persisted index as the next execution reads it.
PersistedIndex == IF Present(processedIndex) THEN processedIndex[1] ELSE 0

\* The persisted results as the next execution reads them.
PersistedResults == IF Present(auditResults) THEN auditResults[1] ELSE << >>

\* Every execution so far has returned by itself; the time budget may have
\* cut its loop short.
NoneStopped == happened \subseteq {"timeout"}

\* C24: in executions one after the other from a fresh state, the time
\* budget cutting loops short, every index of the cached list is checked
\* exactly once per cycle: an execution checks the indices from the
\* persisted index on and moves the index by the number it checked, the
\* results held are those of the flagged groups below the index, and each
\* report lists the flagged groups of the whole list, each once, in list
\* order.
C24_ExactlyOnceCoverage ==
    (NoneStopped /\ Present(groupsCache)) =>
        /\ invocations[1].pc \in {"idle", "readIndex", "readResults", "loop"} =>
              PersistedResults = FlaggedGroupsOf(FirstGroups(PersistedIndex))
        /\ invocations[1].pc = "saveIndex" =>
              /\ invocations[1].batchStart = PersistedIndex
              /\ invocations[1].index.value =
                    invocations[1].batchStart + invocations[1].currentIndex
              /\ invocations[1].batchResults =
                    FlaggedGroupsOf(SubSeq(groupsCache[1], invocations[1].batchStart + 1,
                                        invocations[1].index.value))
        /\ invocations[1].pc \in {"saveIndex", "saveResults", "complete?", "deleteIndex"} =>
              invocations[1].allResults =
                  FlaggedGroupsOf(FirstGroups(invocations[1].index.value))
        /\ invocations[1].pc = "complete?" =>
              /\ PersistedIndex = invocations[1].index.value
              /\ PersistedResults = invocations[1].allResults
        /\ \A k \in 1..Len(finalReports) :
              /\ finalReports[k].groups = FlaggedGroupsOf(groupsCache[1])
              /\ finalReports[k].totalGroupsScanned = Len(groupsCache[1])

\* A cycle of several executions, one of them cut short by the time budget,
\* has completed: its report lists the two flagged groups of the list.
C24_Witness ==
    /\ happened = {"timeout"}
    /\ runs > RunsPerCycle
    /\ invocations[1].pc = "idle"
    /\ Len(finalReports) = 1
    /\ Len(finalReports[1].groups) = 2
    /\ finalReports[1].groups = FlaggedGroupsOf(groupsCache[1])
    /\ processedIndex = None

\* C25: at every point where an execution can be stopped, the points
\* between the two setProperty calls and between the two deleteProperty
\* calls included, the persisted auditResults are exactly the flagged groups
\* among the indices below the persisted processedIndex.
C25_CheckpointPairConsistent ==
    (happened = {} /\ Present(groupsCache)) =>
        PersistedResults = FlaggedGroupsOf(FirstGroups(PersistedIndex))

\* The pair is consistent wherever an execution stands outside its save
\* step and its clear step.
C25_ConsistentOutsideSaveAndClear ==
    (happened = {} /\ Present(groupsCache)
       /\ invocations[1].pc \notin {"saveResults", "deleteResults"})
    => C25_CheckpointPairConsistent

\* ------------------------------------------------------------------------
\* Properties of overlapping executions: what the saves leave
\* ------------------------------------------------------------------------

\* Both executions have passed their save step and none has gone further.
BothSaved == \A p \in Procs : invocations[p].pc = "complete?"

\* C26: once two overlapping executions have both saved, every group that
\* either of them found lacking an owner or a manager is in the persisted
\* auditResults.
C26_NoLostResults ==
    BothSaved =>
        \A p \in Procs :
            \A k \in 1..Len(invocations[p].batchResults) :
                InSeq(invocations[p].batchResults[k], PersistedResults)

\* Once both have saved, each of the two properties is what one of the two
\* executions wrote, not necessarily the same one.
C26_LastWriterWins ==
    BothSaved =>
        /\ \E p \in Procs : auditResults = Some(invocations[p].allResults)
        /\ \E p \in Procs : processedIndex = IndexText(invocations[p].index)

\* One execution emitted the report of the cycle while the other, started
\* earlier than that, had read the two properties and not yet saved; by now
\* both have returned.
CompletedWhileOtherInFlight ==
    /\ "reportWhileOtherInFlight" \in happened
    /\ \A p \in Procs : invocations[p].pc = "idle"

\* C27: when one execution completes the cycle while another that started
\* earlier is in flight, the later save of that one leaves no processedIndex
\* and no auditResults of the finished cycle in the store: the following
\* execution starts at index 0 with empty results.
C27_NoStaleStateAfterCompletion ==
    CompletedWhileOtherInFlight => (PersistedIndex = 0 /\ PersistedResults = << >>)

\* ------------------------------------------------------------------------
\* The manage script when the event listing fails partway
\* ------------------------------------------------------------------------

\* Unsuspended, unexcluded holders of the target SKU that differ in what the
\* two login sources show.
PartialKinds ==
    {k \in ProbeKinds :
        /\ k.dir \in {None, Some(RunCutoff - 1)}
        /\ ~k.suspended /\ ~k.isAdmin /\ ~k.isDelegatedAdmin /\ k.ou = None
        /\ k.skus = << TARGET_SKU_ID >>}

PartialEventsInit ==
    /\ config \in {c \in RunConfigs : c.script = "manage"}
    /\ \E n \in 1..MaxUsers :
          \E population \in [1..n -> PartialKinds] :
             /\ dirUsers = [i \in 1..n |-> DirectoryUser(i, population[i])]
             /\ reportsEvents = ProviderEvents(population, 1)
             /\ licenseItems = ProviderLicenses(population, 1)
    /\ licenseFailAt = 0
    /\ reportsFailAt \in 0..ActivityPages(ActivitiesList(RunCutoff))
    /\ pc = "idle"
    /\ inactiveUsers = << >>
    /\ usersToProcess = << >>
    /\ loopIndex = 0
    /\ results = << >>
    /\ calls = << >>
    /\ report = None
    /\ ClassifyIdle
    /\ BatchIdle

PartialEventsNext == ManageStart \/ ManageStep

SpecPartialEvents == PartialEventsInit /\ [][PartialEventsNext]_vars

\* The event source holds a login event of the user at or after the cutoff.
RecentEventOf(u) ==
    \E k \in 1..Len(reportsEvents) :
        /\ Present(reportsEvents[k].email)
        /\ SameAddress(reportsEvents[k].email[1], u.primaryEmail)
        /\ reportsEvents[k].time >= RunCutoff

\* The run has classified the user INACTIVE, or issued a call or written a
\* record for them.
TreatedAsInactive(u) ==
    \/ \E k \in 1..Len(inactiveUsers) :
          SameAddress(inactiveUsers[k].primaryEmail, u.primaryEmail)
    \/ \E k \in 1..Len(calls) : SameAddress(calls[k].user, u.primaryEmail)
    \/ \E k \in 1..Len(results) : SameAddress(results[k].email, u.primaryEmail)

\* C28: a user with a login event at or after the cutoff in the event source
\* is never classified INACTIVE and never suspended or re-licensed, also
\* when a page request of the event listing fails and the login map holds
\* the pages before the failure only.
C28_RecentLoginProtects ==
    \A i \in 1..Len(dirUsers) :
        RecentEventOf(dirUsers[i]) => ~TreatedAsInactive(dirUsers[i])

\* The protection holds when every page of the event listing is fetched.
C28_ProtectsWhenListingComplete ==
    reportsFailAt = 0 => C28_RecentLoginProtects

\* ------------------------------------------------------------------------
\* The archive script: swap of the license of inactive users
\* ------------------------------------------------------------------------

REMOVE_SKU_ID == "1010020020"

ADD_SKU_ID == "1010340001"

\* getSkuName of the archive script: the archive SKU first, then the first
\* catalogue name whose id matches, else the id.
getSkuNameArchive(skuId) ==
    CASE skuId = ADD_SKU_ID -> "Archive User (Target)"
      [] skuId = "1010020020" -> "Enterprise Plus"
      [] skuId = "1010020028" -> "Enterprise Standard"
      [] skuId = "1010020027" -> "Business Starter"
      [] OTHER -> skuId

\* The users an archive run can tell apart: inactive or with a login event
\* at the cutoff, and what they hold.
ArchiveKinds ==
    [dir : {None}, ev : {None, Some(RunCutoff)}, suspended : {FALSE},
     isAdmin : {FALSE}, isDelegatedAdmin : {FALSE}, ou : {None},
     skus : {<< >>, << OTHER_SKU_ID >>, << REMOVE_SKU_ID >>,
             << REMOVE_SKU_ID, ADD_SKU_ID >>}]

ArchiveConfigs == {[script |-> "archive", PERFORM_ARCHIVE |-> p] : p \in BOOLEAN}

\* The answers the license provider may give to the two calls of a swap; the
\* insert is not reached after a failed remove.
ArchiveOutcomes ==
    {o \in ProviderOutcomes :
        /\ o.update /\ ~Present(o.manager) /\ o.transfer
        /\ (~o.remove => o.insert)}

\* The forEach callback of archiveInactiveUsers for one inactive user: the
\* user object it pushes on archivedUsers (if any) and the calls it makes.
\* Both calls are in one try block: a failed remove skips the insert.
archiveInactiveUsers(user, licenseMap, perform, ok) ==
    LET userEmail == ToLower(user.primaryEmail)
        entry == Lookup(licenseMap, userEmail)
        hasTarget == \E j \in 1..Len(entry[1]) : entry[1][j].skuId = REMOVE_SKU_ID
        alreadyArchived == \E j \in 1..Len(entry[1]) : entry[1][j].skuId = ADD_SKU_ID
        licenseString == [j \in 1..Len(entry[1]) |-> getSkuNameArchive(entry[1][j].skuId)]
        Pushed(actionStatus) ==
            Some([actionStatus |-> actionStatus, licenseString |-> licenseString] @@ user)
    IN IF ~Present(entry) THEN [pushed |-> None, calls |-> << >>]
       ELSE IF ~(hasTarget /\ ~alreadyArchived) THEN [pushed |-> None, calls |-> << >>]
       ELSE IF ~perform
       THEN [pushed |-> Pushed(<< "Dry Run - Would Archive" >>), calls |-> << >>]
       ELSE IF ~ok.remove
       THEN [pushed |-> Pushed(<< "Error", ErrorMessage("LicenseAssignments.remove") >>),
             calls |-> << Call("LicenseAssignments.remove", userEmail, FALSE) >>]
       ELSE IF ~ok.insert
       THEN [pushed |-> Pushed(<< "Error", ErrorMessage("LicenseAssignments.insert") >>),
             calls |-> << Call("LicenseAssignments.remove", userEmail, TRUE),
                          Call("LicenseAssignments.insert", userEmail, FALSE) >>]
       ELSE [pushed |-> Pushed(<< "ARCHIVED (Swapped Licenses)" >>),
             calls |-> << Call("LicenseAssignments.remove", userEmail, TRUE),
                          Call("LicenseAssignments.insert", userEmail, TRUE) >>]

\* The assignments the license provider holds after it has served the calls:
\* a remove that succeeded takes the user's REMOVE_SKU_ID assignment away,
\* an insert that succeeded adds an ADD_SKU_ID assignment.
RECURSIVE LicensesAfter(_, _)
LicensesAfter(items, made) ==
    IF made = << >> THEN items
    ELSE LET c == Head(made) IN
         IF ~c.ok THEN LicensesAfter(items, Tail(made))
         ELSE IF c.api = "LicenseAssignments.remove"
         THEN LicensesAfter(SelectSeq(items,
                                LAMBDA it : ~(ToLower(it.userId) = c.user
                                              /\ it.skuId = REMOVE_SKU_ID)),
                            Tail(made))
         ELSE LicensesAfter(Append(items, [userId |-> c.user, skuId |-> ADD_SKU_ID]),
                            Tail(made))

ArchiveInit ==
    /\ config \in ArchiveConfigs
    /\ \E n \in 0..MaxUsers :
          \E population \in [1..n -> ArchiveKinds] :
             /\ dirUsers = [i \in 1..n |-> DirectoryUser(i, population[i])]
             /\ reportsEvents = ProviderEvents(population, 1)
             /\ licenseItems = ProviderLicenses(population, 1)
    /\ licenseFailAt = 0
    /\ reportsFailAt = 0
    /\ pc = "idle"
    /\ inactiveUsers = << >>
    /\ usersToProcess = << >>
    /\ loopIndex = 0
    /\ results = << >>
    /\ calls = << >>
    /\ report = None
    /\ probe = [email |-> "ann@corp", ev |-> None, dir |-> None, cutoff |-> 0]
    /\ verdict = [licenseMap |-> None]
    /\ BatchIdle

\* Lines 109-119 of archiveInactiveUsers: the license map, built once, and
\* the inactive users; with none the function returns.
ArchiveStart ==
    /\ pc = "idle"
    /\ config.script = "archive"
    /\ \E licenseMap \in {getAllLicenseAssignments} :
       \E inactive \in {getInactiveUsersArchive(UsersList,
                            getLoginActivityFromReports(RunCutoff), RunCutoff)} :
          /\ verdict' = [licenseMap |-> Some(licenseMap)]
          /\ IF Len(inactive) = 0
             THEN /\ pc' = "done"
                  /\ UNCHANGED << inactiveUsers, usersToProcess, loopIndex >>
             ELSE /\ pc' = "processing"
                  /\ inactiveUsers' = inactive
                  /\ usersToProcess' = inactive
                  /\ loopIndex' = 1
    /\ UNCHANGED << probe, config, dirUsers, reportsEvents, licenseItems, licenseFailAt,
                    reportsFailAt, results, calls, report >>
    /\ UNCHANGED batchVars

\* One iteration of the forEach in archiveInactiveUsers, over every
\* inactive user; after the last one the report of the pushed users is
\* written if there is any.
ArchiveStep ==
    /\ pc = "processing"
    /\ config.script = "archive"
    /\ loopIndex <= Len(usersToProcess)
    /\ \E ok \in ArchiveOutcomes :
       \E out \in {archiveInactiveUsers(usersToProcess[loopIndex], verdict.licenseMap[1],
                                        config.PERFORM_ARCHIVE, ok)} :
          /\ results' = results \o out.pushed
          /\ calls' = calls \o out.calls
          /\ licenseItems' = LicensesAfter(licenseItems, out.calls)
          /\ loopIndex' = loopIndex + 1
          /\ IF loopIndex + 1 > Len(usersToProcess)
             THEN /\ pc' = "done"
                  /\ report' = IF Len(results \o out.pushed) > 0
                               THEN Some([results |-> results \o out.pushed])
                               ELSE None
             ELSE UNCHANGED << pc, report >>
    /\ UNCHANGED << probe, verdict, config, dirUsers, reportsEvents, licenseFailAt,
                    reportsFailAt, inactiveUsers, usersToProcess >>
    /\ UNCHANGED batchVars

ArchiveNext == ArchiveStart \/ ArchiveStep

SpecArchive == ArchiveInit /\ [][ArchiveNext]_vars

\* The license provider holds an assignment of the SKU for the address.
Holds(address, skuId) ==
    \E k \in 1..Len(licenseItems) :
        /\ SameAddress(licenseItems[k].userId, address)
        /\ licenseItems[k].skuId = skuId

\* C29: after archiveInactiveUsers has handled a user in live mode the user
\* holds exactly one of REMOVE_SKU_ID and ADD_SKU_ID; no failure of a
\* provider call leaves the user with neither.
C29_SwapLeavesOneLicense ==
    (config.script = "archive" /\ config.PERFORM_ARCHIVE) =>
        \A k \in 1..Len(results) :
            Holds(results[k].primaryEmail, REMOVE_SKU_ID)
                # Holds(results[k].primaryEmail, ADD_SKU_ID)

\* What does hold: a handled user never holds both, holds the archive
\* license exactly when the swap is reported, and keeps the old license
\* exactly when the remove call failed.
C29_SwapOutcomes ==
    (config.script = "archive" /\ config.PERFORM_ARCHIVE) =>
        \A k \in 1..Len(results) :
            /\ ~(Holds(results[k].primaryEmail, REMOVE_SKU_ID)
                 /\ Holds(results[k].primaryEmail, ADD_SKU_ID))
            /\ Holds(results[k].primaryEmail, ADD_SKU_ID)
                  <=> results[k].actionStatus = << "ARCHIVED (Swapped Licenses)" >>
            /\ Holds(results[k].primaryEmail, REMOVE_SKU_ID)
                  <=> results[k].actionStatus =
                         << "Error", ErrorMessage("LicenseAssignments.remove") >>

\* ------------------------------------------------------------------------
\* The login map of a run against the cutoff, at the resolution of the clock
\* ------------------------------------------------------------------------

\* The start of the window a run asks for when nothing delays it.
NominalStart(clock, days) ==
    clock - (IF days < 180 THEN days ELSE 180) * DayTicks

\* The times around the start of the window at which the user may have
\* logged in.
EventOffsets == (0 - TicksPerSecond)..(TicksPerSecond + 1)

\* At most two login events of the user, in the order of their times.
EventTimeLists ==
    {<< >>} \cup {<< d >> : d \in EventOffsets}
            \cup {<< d, e >> : d \in EventOffsets, e \in EventOffsets}

StaleInit ==
    /\ \E days \in ThresholdChoices :
       \E clock \in 0..(DayTicks - 1) :
       \E offsets \in {l \in EventTimeLists : Len(l) = 2 => l[1] < l[2]} :
       \E dir \in {None, Some(NominalStart(clock, days) - DayTicks),
                   Some(NominalStart(clock, days) + DayTicks)} :
          /\ probe = [script |-> "autorun", days |-> days, clock |-> clock]
          /\ dirUsers = << [primaryEmail |-> "Bob@corp", lastLoginTime |-> dir,
                            suspended |-> FALSE, isAdmin |-> FALSE,
                            isDelegatedAdmin |-> FALSE, orgUnitPath |-> None] >>
          /\ reportsEvents =
                [k \in 1..Len(offsets) |->
                    [email |-> Some("Bob@corp"),
                     time |-> NominalStart(clock, days) + offsets[k]]]
    /\ verdict = [cutoff |-> None, query |-> None, loginMap |-> None,
                  inactiveUsers |-> None]
    /\ config = [script |-> "autorun"]
    /\ licenseItems = << >>
    /\ licenseFailAt = 0
    /\ reportsFailAt = 0
    /\ pc = "idle"
    /\ inactiveUsers = << >>
    /\ usersToProcess = << >>
    /\ loopIndex = 0
    /\ results = << >>
    /\ calls = << >>
    /\ report = None
    /\ BatchIdle

\* AdminReports.Activities.list for a window: the provider returns the
\* events inside the requested window and no other.
ActivitiesInWindow(query) ==
    SelectSeq(reportsEvents,
              LAMBDA a : a.time >= query.startTime /\ a.time <= query.endTime)

\* getInactiveUsers(cutoffDate) of the Auto Run script once the query is
\* made: the login map of the window's events, then the filter over the
\* listed users.
StaleGetInactiveUsers ==
    /\ Present(verdict.query)
    /\ verdict.loginMap = None
    /\ \E reportsLoginData \in
            {ListActivityPages(ActivitiesInWindow(verdict.query[1]), 1, EmptyMap)} :
          verdict' = [verdict EXCEPT
                         !.loginMap = Some(reportsLoginData),
                         !.inactiveUsers =
                             Some(getInactiveUsers(UsersList, reportsLoginData,
                                                   verdict.cutoff[1]))]
    /\ UNCHANGED << probe, runVars, batchVars >>

StaleNext ==
    \/ WindowGetCutoffDate
    \/ WindowClockTick
    \/ WindowQuery
    \/ StaleGetInactiveUsers

SpecStale == StaleInit /\ [][StaleNext]_vars

\* The user of the run is in the login map.
InLoginMap == "bob@corp" \in DOMAIN verdict.loginMap[1]

\* The run classified its user INACTIVE.
ClassifiedInactive == Len(verdict.inactiveUsers[1]) = 1

\* C30 (as claimed): every timestamp in the login map of a run is >= the
\* cutoff, so every user present in the login map is classified ACTIVE and
\* the classifier never meets an entry older than the cutoff.
C30_NoStaleEntries ==
    Present(verdict.loginMap) =>
        /\ \A a \in DOMAIN verdict.loginMap[1] :
              verdict.loginMap[1][a] >= verdict.cutoff[1]
        /\ InLoginMap => ~ClassifiedInactive

\* The start of the second a time lies in.
WholeSecond(t) == (t \div TicksPerSecond) * TicksPerSecond

\* The latest event of the user from the whole second of the later of
\* cutoff and retention horizon up to the whole second of the query's now.
LatestInSentWindow ==
    LET horizon == probe.clock - ReportsHistoryTicks
        from == WholeSecond(IF verdict.cutoff[1] > horizon THEN verdict.cutoff[1]
                            ELSE horizon)
        upTo == WholeSecond(probe.clock)
        times == {reportsEvents[k].time : k \in
                     {j \in 1..Len(reportsEvents) :
                         reportsEvents[j].time >= from /\ reportsEvents[j].time <= upTo}}
    IN IF times = {} THEN None ELSE Some(Latest(times))

\* C30 (amended): the login map holds the user's latest event inside the
\* window as sent, which starts at the whole second of max(cutoff, now - 180
\* days); every timestamp in the map is therefore >= the cutoff cut to the
\* whole second, and can be older than the cutoff by less than a second.  A
\* user whose entry is >= cutoff is classified ACTIVE; with an older entry
\* the directory lastLoginTime decides.
C30_EntriesFromWholeSecond ==
    Present(verdict.loginMap) =>
        /\ Lookup(verdict.loginMap[1], "bob@corp") = LatestInSentWindow
        /\ \A a \in DOMAIN verdict.loginMap[1] :
              /\ verdict.loginMap[1][a] >= WholeSecond(verdict.cutoff[1])
              /\ verdict.loginMap[1][a] > verdict.cutoff[1] - TicksPerSecond
        /\ (InLoginMap /\ verdict.loginMap[1]["bob@corp"] >= verdict.cutoff[1])
              => ~ClassifiedInactive
        /\ (InLoginMap /\ verdict.loginMap[1]["bob@corp"] < verdict.cutoff[1])
              => (ClassifiedInactive <=>
                    ~(Present(dirUsers[1].lastLoginTime)
                      /\ dirUsers[1].lastLoginTime[1] >= verdict.cutoff[1]))

\* With the threshold as shipped the cutoff falls inside a second and the
\* user's latest event inside the window lies in that second before the
\* cutoff: the map holds it, and the user, with no directory login, is
\* classified INACTIVE.
C30_Witness ==
    /\ Present(verdict.loginMap)
    /\ InLoginMap
    /\ verdict.loginMap[1]["bob@corp"] < verdict.cutoff[1]
    /\ verdict.loginMap[1]["bob@corp"] >= WholeSecond(verdict.cutoff[1])
    /\ dirUsers[1].lastLoginTime = None
    /\ ClassifiedInactive
    /\ probe.days = INACTIVITY_DAYS(probe.script)

====
